---------------------------- MODULE Spec2Model ----------------------------
(***************************************************************************)
(* A model of the synthetic-data generator's core: the value generator     *)
(* families (generators/*.py), the constraint engine                       *)
(* (BaseGenerator.apply_constraints, introduce_outliers,                   *)
(* create_duplicates), the anonymization engine (privacy/anonymizer.py),   *)
(* the differential-privacy engine (privacy/differential_privacy.py),      *)
(* the schema validator (utils/validators.py) and the orchestrator         *)
(* (SyntheticDataApp in app.py).                                           *)
(*                                                                         *)
(* Every routine of the core is a function of its arguments and of the     *)
(* draws it takes from the process-wide random sources.  A routine is an   *)
(* operator that returns the SET of its possible outcomes, one per choice  *)
(* of draws; an action applies one routine to a call and stores one        *)
(* outcome.                                                                *)
(*                                                                         *)
(* Values.  Python values are tagged records, so that values of different  *)
(* types are comparable and never equal:                                   *)
(*    None            [none |-> TRUE]                                      *)
(*    a bool          [bool |-> b]                                         *)
(*    an int          [int |-> i]                                          *)
(*    a float         [flt |-> m]     m in thousandths (fixed point)       *)
(*    a str           [str |-> s]     s a sequence of one-character strings*)
(*    a 'Y-m-d' str   [iso |-> d]     d a day number                       *)
(*    a date          [date |-> d]    d a day number                       *)
(*    a datetime      [dt |-> t]      t in seconds                         *)
(*    a time          [time |-> t]    t the second of the day              *)
(*    datetime.now()  [now |-> t]     t the wall-clock reading, in seconds *)
(*    a dict          [dict |-> m]    m a map from keys to values          *)
(*    a list          [list |-> s]    s a sequence of values               *)
(*                                                                         *)
(* Specifications of one call, drawn in Init.  SpecGen: the constraint     *)
(* engine, introduce_outliers, create_duplicates and generate of the       *)
(* three families.                                                         *)
(* SpecRun: generate_data and the one-value calls it makes.  SpecSweep:    *)
(* one generation run under each outlier_percentage.  SpecPriv:            *)
(* anonymize_data, detect_pii, the noise routines, check_k_anonymity.      *)
(* SpecValid: validate_schema.  SpecTwice: one call made by two runs       *)
(* that are given the same seed.                                           *)
(*                                                                         *)
(* Specifications of a sequence of calls on one object, held in self.      *)
(* SpecDp: the calls of one DifferentialPrivacy engine.  SpecApp: the      *)
(* schema builder, generate_data and export_data of one app.  SpecProc:    *)
(* the constructions and draws of one process, self holding the streams    *)
(* of its random sources.                                                  *)
(*                                                                         *)
(* SpecSignup: one call of _generate_signup_date, a step for each turn     *)
(* of its loop.                                                            *)
(***************************************************************************)
EXTENDS Integers, Sequences, FiniteSets, TLC

VARIABLES
    pc,     \* "call": the call of `call` is about to run; "done": it returned or raised
    call,   \* the routine called and its arguments
    ret,    \* its outcome (meaningful when pc = "done")
    self    \* the object a sequence of calls runs on: its fields after the calls so far

vars == <<pc, call, ret, self>>

-----------------------------------------------------------------------------
(* Bounds of the model *)

\* longest column handed to the constraint engine
MaxLen == 4
\* cap on the iterations of apply_constraints' regeneration loop
MaxRegen == 2
\* largest count asked of a generate call
MaxCount == 2
\* longest string over the alphabet handed to the anonymizer
MaxStrLen == 4
\* longest column (or record list) handed to the privacy routines
MaxCol == 3
\* largest num_rows asked of a generation run
MaxRows == 2
\* largest seed given to two runs
MaxSeed == 2
\* longest sequence of calls made on one engine
MaxOps == 2
\* longest list of fields of a schema handed to the validator, and of a schema
\* the schema builder appends to
MaxFields == 2
\* longest sequence of calls made on one app
MaxAppOps == 3
\* longest sequence of constructions and draws made in one process
MaxProcOps == 3

-----------------------------------------------------------------------------
(* Values and sequences *)

None == [none |-> TRUE]
IntV(i) == [int |-> i]
FltV(m) == [flt |-> m]
StrV(s) == [str |-> s]

IsNone(v) == v = None
IsInt(v) == "int" \in DOMAIN v
IsFlt(v) == "flt" \in DOMAIN v
NotNone(v) == "none" \notin DOMAIN v
IsStr(v) == "str" \in DOMAIN v

Range(s) == {s[i] : i \in DOMAIN s}
SeqsUpTo(S, n) == UNION {[1..k -> S] : k \in 0..n}
NullPositions(s) == {i \in DOMAIN s : IsNone(s[i])}
NullCount(s) == Cardinality(NullPositions(s))
NoDuplicates(s) == \A i, j \in DOMAIN s : s[i] = s[j] => i = j
\* every ordering of the elements of a finite set, each once
Orderings(S) == {s \in [1..Cardinality(S) -> S] : Range(s) = S}
SubsetsOfSize(S, k) == {T \in SUBSET S : Cardinality(T) = k}
\* a mapping's keys and lookups (dict.get with a default)
Has(m, key) == key \in DOMAIN m
Get(m, key, default) == IF key \in DOMAIN m THEN m[key] ELSE default
\* two maps merged (their keys are disjoint), and the map without keys
Merge(a, b) == [key \in DOMAIN a \cup DOMAIN b |-> IF key \in DOMAIN a THEN a[key] ELSE b[key]]
EmptyMap == [key \in {} |-> 0]
Min2(a, b) == IF a <= b THEN a ELSE b
Max2(a, b) == IF a >= b THEN a ELSE b

-----------------------------------------------------------------------------
(* BaseGenerator.apply_constraints (generators/base_generator.py) *)

\* int(len(data) * null_pct / 100): the quotient is non-negative, int() floors it
NullTarget(n, null_pct) == (n * null_pct) \div 100

\* data[idx] = None for every idx of null_indices
SetNone(data, null_indices) ==
    [i \in DOMAIN data |-> IF i \in null_indices THEN None ELSE data[i]]

\* list(set(data)): the distinct values, in the set's iteration order, which
\* the language leaves unspecified
ListOfSet(data) == Orderings(Range(data))

\* the guard as the comment above it intends it: the column lost values
RegenGuardIntended(data, requested) == Len(data) < requested

\* `while len(data) < len(data)`: data was rebound to the deduplicated list, so
\* both sides read the same list; `requested` (the length before
\* deduplication) is not what the code compares with
RegenGuard(data, requested) == Len(data) < Len(data)

\* The regeneration loop: each iteration calls self.generate(1, ...) and appends
\* the value if it is new.  GenPool stands for the values generate may return.
RECURSIVE Regenerate(_, _, _, _)
Regenerate(data, requested, calls, GenPool) ==
    IF RegenGuard(data, requested) /\ calls < MaxRegen
    THEN UNION { Regenerate(IF v \in Range(data) THEN data ELSE Append(data, v),
                            requested, calls + 1, GenPool) : v \in GenPool }
    ELSE {[data |-> data, generate_calls |-> calls]}

\* The outcomes of apply_constraints(data, constraints).  `nulled` records the
\* positions random.sample picked; `raised` is an exception leaving the call
\* (random.sample raises ValueError when asked for more positions than exist).
apply_constraints(data, constraints, GenPool) ==
    IF DOMAIN constraints = {}
    THEN {[raised |-> FALSE, data |-> data, nulled |-> {}, generate_calls |-> 0]}
    ELSE LET null_pct == Get(constraints, "null_percentage", 0)
             k == IF Has(constraints, "null_percentage") /\ null_pct > 0
                  THEN NullTarget(Len(data), null_pct) ELSE 0
         IN  IF k > Len(data)
             THEN {[raised |-> TRUE, data |-> data, nulled |-> {}, generate_calls |-> 0]}
             ELSE UNION {
                    LET nulled == SetNone(data, idx)
                    IN  IF Get(constraints, "unique", FALSE)
                        THEN UNION { { [raised |-> FALSE, data |-> r.data, nulled |-> idx,
                                        generate_calls |-> r.generate_calls]
                                       : r \in Regenerate(d, Len(nulled), 0, GenPool) }
                                     : d \in ListOfSet(nulled) }
                        ELSE {[raised |-> FALSE, data |-> nulled, nulled |-> idx,
                               generate_calls |-> 0]}
                    : idx \in SubsetsOfSize(DOMAIN data, k) }

-----------------------------------------------------------------------------
(* BaseGenerator.introduce_outliers (generators/base_generator.py) *)

IsNumber(v) == IsInt(v) \/ IsFlt(v)
\* a number's value in thousandths
Milli(v) == IF IsInt(v) THEN v.int * 1000 ELSE v.flt

\* data[idx] * factor for factor in [0.1, 10, 100]; int * 0.1 is a float
OutlierFactors == {"tenth", "ten", "hundred"}
TimesFactor(v, factor) ==
    CASE factor = "tenth"   -> FltV(Milli(v) \div 10)
      [] factor = "ten"     -> IF IsInt(v) THEN IntV(v.int * 10) ELSE FltV(v.flt * 10)
      [] factor = "hundred" -> IF IsInt(v) THEN IntV(v.int * 100) ELSE FltV(v.flt * 100)

\* random.choices in the place of random.sample: positions drawn with
\* replacement, so that no count is too large for the column
introduce_outliers_with_choices(data, outlier_percentage) ==
    IF outlier_percentage <= 0 \/ Len(data) = 0
    THEN {[raised |-> FALSE, data |-> data, outliers |-> {}]}
    ELSE LET outlier_count == (Len(data) * outlier_percentage) \div 100
         IN  UNION {
               { [raised |-> FALSE, outliers |-> idx,
                  data |-> [i \in DOMAIN data |->
                              IF i \in idx /\ IsNumber(data[i])
                              THEN TimesFactor(data[i], f[i]) ELSE data[i]]]
                 : f \in [DOMAIN data -> OutlierFactors] }
               : idx \in {T \in SUBSET DOMAIN data :
                            /\ Cardinality(T) <= outlier_count
                            /\ outlier_count > 0 => T # {}} }

\* the outcomes of introduce_outliers(data, outlier_percentage)
introduce_outliers(data, outlier_percentage) ==
    IF outlier_percentage <= 0 \/ Len(data) = 0
    THEN {[raised |-> FALSE, data |-> data, outliers |-> {}]}
    ELSE LET outlier_count == (Len(data) * outlier_percentage) \div 100
         IN  IF outlier_count > Len(data)
             THEN {[raised |-> TRUE, data |-> data, outliers |-> {}]}
             ELSE UNION {
                    { [raised |-> FALSE, outliers |-> idx,
                       data |-> [i \in DOMAIN data |->
                                   IF i \in idx /\ IsNumber(data[i])
                                   THEN TimesFactor(data[i], f[i]) ELSE data[i]]]
                      : f \in [DOMAIN data -> OutlierFactors] }
                    : idx \in SubsetsOfSize(DOMAIN data, outlier_count) }

-----------------------------------------------------------------------------
(* BaseGenerator.create_duplicates (generators/base_generator.py) *)

\* random.sample(data, k) in the place of random.choices: k distinct positions,
\* and an error when k exceeds the length of the column
create_duplicates_sampling(data, duplicate_percentage) ==
    IF duplicate_percentage <= 0 \/ Len(data) = 0
    THEN {[raised |-> FALSE, data |-> data, same_list |-> TRUE]}
    ELSE LET duplicate_count == (Len(data) * duplicate_percentage) \div 100
         IN  IF duplicate_count > Len(data)
             THEN {[raised |-> TRUE, data |-> data, same_list |-> TRUE]}
             ELSE { [raised |-> FALSE, same_list |-> FALSE,
                     data |-> data \o [i \in 1..duplicate_count |-> data[pos[i]]]]
                    : pos \in {p \in [1..duplicate_count -> DOMAIN data] :
                                 \A i, j \in DOMAIN p : p[i] = p[j] => i = j} }

\* the outcomes of create_duplicates(data, duplicate_percentage): the list that
\* is returned, and whether it is the list that was passed.  random.choices
\* draws each of the duplicate_count positions on its own.
create_duplicates(data, duplicate_percentage) ==
    IF duplicate_percentage <= 0 \/ Len(data) = 0
    THEN {[raised |-> FALSE, data |-> data, same_list |-> TRUE]}
    ELSE LET duplicate_count == (Len(data) * duplicate_percentage) \div 100
         IN  { [raised |-> FALSE, same_list |-> FALSE,
                data |-> data \o [i \in 1..duplicate_count |-> data[pos[i]]]]
               : pos \in [1..duplicate_count -> DOMAIN data] }

-----------------------------------------------------------------------------
(* NumericGenerator (generators/numeric_generator.py) *)

numeric_types == {"integer", "float", "percentage", "currency", "id",
                  "transaction_amount", "salary", "age", "temperature",
                  "humidity", "latitude", "longitude", "rating", "score"}

\* a value synthesis either returns a value or raises
Value(v) == [ok |-> TRUE, v |-> v]
Raises == [ok |-> FALSE]

\* min(a, b) and max(a, b) return one of their arguments, the first on a tie
PyMin(a, b) == IF Milli(b) < Milli(a) THEN b ELSE a
PyMax(a, b) == IF Milli(b) > Milli(a) THEN b ELSE a

\* m rounded to a multiple of step, ties to the even multiple
RoundHalfEven(m, step) ==
    LET q == m \div step
        r == m - q * step
    IN  IF 2 * r < step THEN q * step
        ELSE IF 2 * r > step THEN (q + 1) * step
        ELSE IF q % 2 = 0 THEN q * step ELSE (q + 1) * step

\* thousandths per unit of the last kept decimal; finer than the model's
\* resolution (3 decimals or more) keeps the value
DecimalStep(ndigits) ==
    CASE ndigits = 0 -> 1000 [] ndigits = 1 -> 100 [] ndigits = 2 -> 10 [] OTHER -> 1

\* round(v, ndigits): an int is returned as it is
PyRound(v, ndigits) ==
    IF IsInt(v) THEN v ELSE FltV(RoundHalfEven(v.flt, DecimalStep(ndigits)))

\* int(x) truncates towards zero
Trunc(m) == IF m >= 0 THEN m \div 1000 ELSE -((-m) \div 1000)

\* random.random() in quarters: uniform(a, b) = a + (b - a) * random()
UnitDraws == {0, 1, 3}
Uniform(a, b) ==
    { FltV(Milli(a) + ((Milli(b) - Milli(a)) * q) \div 4) : q \in UnitDraws }

\* random.randint(a, b): raises unless a and b are ints with a <= b; the model
\* draws the ends and the middle of the range
RandInt(a, b) ==
    IF ~(IsInt(a) /\ IsInt(b)) \/ a.int > b.int THEN {Raises}
    ELSE { Value(IntV(i)) : i \in {a.int, (a.int + b.int) \div 2, b.int} }

\* np.random.normal(mean, std), in thousandths: raises when std < 0; the model
\* draws mean + z * std / 2 for z in HalfSigmas (far below, inside, far above)
HalfSigmas == {-8, 1, 8}
Normal(mean, std) ==
    IF std < 0 THEN {Raises}
    ELSE { Value(FltV(mean + (z * std) \div 2)) : z \in HalfSigmas }

\* np.random.lognormal(ln 100, 1.0): a positive float
LogNormalDraws == {FltV(4), FltV(100000), FltV(90000000)}

Arg(kwargs, key, default) == Get(kwargs, key, default)

generate_integer(kwargs) ==
    RandInt(Arg(kwargs, "min_val", IntV(0)), Arg(kwargs, "max_val", IntV(100)))

generate_float(kwargs) ==
    { Value(PyRound(x, Arg(kwargs, "decimal_places", 2)))
      : x \in Uniform(Arg(kwargs, "min_val", FltV(0)), Arg(kwargs, "max_val", FltV(100000))) }

generate_percentage(kwargs) ==
    { Value(PyRound(x, 2))
      : x \in Uniform(Arg(kwargs, "min_val", FltV(0)), Arg(kwargs, "max_val", FltV(100000))) }

generate_currency(kwargs) ==
    { Value(PyRound(x, 2))
      : x \in Uniform(Arg(kwargs, "min_val", FltV(0)), Arg(kwargs, "max_val", FltV(10000000))) }

generate_id(kwargs) ==
    RandInt(Arg(kwargs, "min_val", IntV(1)), Arg(kwargs, "max_val", IntV(999999)))

generate_transaction_amount(kwargs) ==
    LET min_val == Arg(kwargs, "min_val", FltV(10))
        max_val == Arg(kwargs, "max_val", FltV(10000000))
    IN  { Value(PyRound(PyMin(PyMax(x, min_val), max_val), 2)) : x \in LogNormalDraws }

generate_salary(kwargs) ==
    LET min_val == Arg(kwargs, "min_val", FltV(30000000))
        max_val == Arg(kwargs, "max_val", FltV(200000000))
        mean == (Milli(min_val) + Milli(max_val)) \div 2
        std == (Milli(max_val) - Milli(min_val)) \div 6
    IN  { IF x.ok THEN Value(PyRound(PyMax(PyMin(x.v, max_val), min_val), 2)) ELSE Raises
          : x \in Normal(mean, std) }

generate_age(kwargs) ==
    LET min_val == Arg(kwargs, "min_val", IntV(18))
        max_val == Arg(kwargs, "max_val", IntV(80))
    IN  { Value(PyMax(PyMin(IntV(Trunc(x.v.flt)), max_val), min_val))
          : x \in Normal(35000, 15000) }

generate_temperature(kwargs) ==
    { Value(PyRound(x, 1))
      : x \in Uniform(Arg(kwargs, "min_val", FltV(-10000)), Arg(kwargs, "max_val", FltV(40000))) }

generate_humidity(kwargs) ==
    { Value(PyRound(x, 1))
      : x \in Uniform(Arg(kwargs, "min_val", FltV(0)), Arg(kwargs, "max_val", FltV(100000))) }

generate_latitude(kwargs) ==
    { Value(PyRound(x, 6))
      : x \in Uniform(Arg(kwargs, "min_val", FltV(-90000)), Arg(kwargs, "max_val", FltV(90000))) }

generate_longitude(kwargs) ==
    { Value(PyRound(x, 6))
      : x \in Uniform(Arg(kwargs, "min_val", FltV(-180000)), Arg(kwargs, "max_val", FltV(180000))) }

generate_rating(kwargs) ==
    { Value(PyRound(x, 1))
      : x \in Uniform(Arg(kwargs, "min_val", FltV(1000)), Arg(kwargs, "max_val", FltV(5000))) }

generate_score(kwargs) ==
    LET min_val == Arg(kwargs, "min_val", FltV(0))
        max_val == Arg(kwargs, "max_val", FltV(100000))
        mean == (Milli(min_val) + Milli(max_val)) \div 2
        std == (Milli(max_val) - Milli(min_val)) \div 6
    IN  { IF x.ok THEN Value(PyRound(PyMax(PyMin(x.v, max_val), min_val), 1)) ELSE Raises
          : x \in Normal(mean, std) }

\* self.numeric_types[numeric_type](**kwargs)
NumericFunc(numeric_type, kwargs) ==
    CASE numeric_type = "integer"            -> generate_integer(kwargs)
      [] numeric_type = "float"              -> generate_float(kwargs)
      [] numeric_type = "percentage"         -> generate_percentage(kwargs)
      [] numeric_type = "currency"           -> generate_currency(kwargs)
      [] numeric_type = "id"                 -> generate_id(kwargs)
      [] numeric_type = "transaction_amount" -> generate_transaction_amount(kwargs)
      [] numeric_type = "salary"             -> generate_salary(kwargs)
      [] numeric_type = "age"                -> generate_age(kwargs)
      [] numeric_type = "temperature"        -> generate_temperature(kwargs)
      [] numeric_type = "humidity"           -> generate_humidity(kwargs)
      [] numeric_type = "latitude"           -> generate_latitude(kwargs)
      [] numeric_type = "longitude"          -> generate_longitude(kwargs)
      [] numeric_type = "rating"             -> generate_rating(kwargs)
      [] numeric_type = "score"              -> generate_score(kwargs)

\* a fallback drawn with random.randint(0, 1000)
NumericFallbackWide == { x.v : x \in RandInt(IntV(0), IntV(1000)) }

\* the except branch: data.append(random.randint(1, 100))
NumericFallback == { x.v : x \in RandInt(IntV(1), IntV(100)) }

-----------------------------------------------------------------------------
(* TextGenerator (generators/text_generator.py) *)

text_types == {"name", "email", "address", "phone", "company", "job_title",
               "description", "sentence", "paragraph", "url", "user_agent",
               "mac_address", "credit_card", "bank_account", "patient_id",
               "medical_record", "diagnosis_code", "medication", "country",
               "city", "zip_code", "ipv4", "ipv6", "custom"}

\* the subtypes whose value is one call of a Faker provider
faker_types == text_types \ {"patient_id", "medical_record", "diagnosis_code",
                             "medication", "custom"}

DigitChars == <<"0", "1", "2", "3", "4", "5", "6", "7", "8", "9">>
IsDigit(ch) == \E d \in 1..10 : DigitChars[d] = ch
\* str(n) for n >= 0
RECURSIVE Digits(_)
Digits(n) == IF n < 10 THEN <<DigitChars[n + 1]>>
             ELSE Digits(n \div 10) \o <<DigitChars[(n % 10) + 1]>>

\* Faker is a library outside the repository: a provider call returns a
\* string, or, in an environment where it can fail (faker_raises), may raise
FakerStrings == { <<"a", "b", "@", "x">>, <<"J", "o", " ", "D">> }
Faker(faker_raises) ==
    { Value(StrV(w)) : w \in FakerStrings } \cup (IF faker_raises THEN {Raises} ELSE {})

\* whether sub occurs in s at position i
OccursAt(s, sub, i) ==
    /\ i + Len(sub) - 1 <= Len(s)
    /\ \A j \in 1..Len(sub) : s[i + j - 1] = sub[j]
\* `sub in s`
Contains(s, sub) == \E i \in 1..Len(s) : OccursAt(s, sub, i)
\* s.replace(sub, rep) for a non-empty sub
RECURSIVE Replace(_, _, _)
Replace(s, sub, rep) ==
    IF Len(s) = 0 THEN <<>>
    ELSE IF OccursAt(s, sub, 1)
         THEN rep \o Replace(SubSeq(s, Len(sub) + 1, Len(s)), sub, rep)
         ELSE <<s[1]>> \o Replace(Tail(s), sub, rep)

NamePlaceholder == <<"{", "n", "a", "m", "e", "}">>
EmailPlaceholder == <<"{", "e", "m", "a", "i", "l", "}">>
CompanyPlaceholder == <<"{", "c", "o", "m", "p", "a", "n", "y", "}">>

\* pattern.replace(placeholder, self.fake.x()) when the placeholder occurs
Substitute(patterns, placeholder, faker_raises) ==
    UNION { IF ~p.ok THEN {Raises}
            ELSE IF ~Contains(p.v, placeholder) THEN {p}
            ELSE { IF w.ok THEN Value(Replace(p.v, placeholder, w.v.str)) ELSE Raises
                   : w \in Faker(faker_raises) }
            : p \in patterns }

\* _generate_custom_text: a failure while filling the pattern is passed over
\* (bare except) and the value is self.fake.word()
generate_custom_text(kwargs, faker_raises) ==
    LET pattern == Arg(kwargs, "pattern", <<>>)
        filled == Substitute(Substitute(Substitute({Value(pattern)},
                      NamePlaceholder, faker_raises),
                      EmailPlaceholder, faker_raises),
                      CompanyPlaceholder, faker_raises)
    IN  IF Len(pattern) > 0
        THEN UNION { IF f.ok THEN {Value(StrV(f.v))} ELSE Faker(faker_raises) : f \in filled }
        ELSE Faker(faker_raises)

DiagnosisCodes == {<<"A", "0", "0">>, <<"J", "0", "0">>}
Medications == {<<"A", "s", "p", "i", "r", "i", "n">>}

\* self.text_types[text_type](**kwargs)
TextFunc(text_type, kwargs, faker_raises) ==
    CASE text_type \in faker_types -> Faker(faker_raises)
      [] text_type = "patient_id" ->
            { Value(StrV(<<"P", "A", "T">> \o Digits(x.v.int)))
              : x \in RandInt(IntV(100000), IntV(999999)) }
      [] text_type = "medical_record" ->
            { Value(StrV(<<"M", "R">> \o Digits(x.v.int)))
              : x \in RandInt(IntV(1000000), IntV(9999999)) }
      [] text_type = "diagnosis_code" ->
            { Value(StrV(c \o <<".">> \o Digits(x.v.int)))
              : c \in DiagnosisCodes, x \in RandInt(IntV(0), IntV(9)) }
      [] text_type = "medication" -> { Value(StrV(m)) : m \in Medications }
      [] text_type = "custom" -> generate_custom_text(kwargs, faker_raises)

GeneratedPrefix == <<"G", "e", "n", "e", "r", "a", "t", "e", "d", "_">>
\* the except branch: f"Generated_{random.randint(1000, 9999)}"
TextFallback ==
    { StrV(GeneratedPrefix \o Digits(x.v.int)) : x \in RandInt(IntV(1000), IntV(9999)) }

-----------------------------------------------------------------------------
(* DateGenerator (generators/date_generator.py).  A date is a day number, day *)
(* 0 a Monday; a datetime is a number of seconds since day 0, 00:00:00; a    *)
(* time of day is a number of seconds.  A date string of the constraints is  *)
(* [iso |-> day] when it parses as %Y-%m-%d and [bad |-> TRUE] when not.     *)

date_types == {"date", "datetime", "time", "date_range", "signup_date",
               "transaction_date", "hire_date", "visit_date", "post_date",
               "sensor_timestamp"}

DaySeconds == 86400
DateV(d) == [date |-> d]
DateTimeV(t) == [dt |-> t]
TimeV(t) == [time |-> t]
\* f"{start} to {end}": a string holding two dates
RangeV(d, e) == [range |-> <<d, e>>]
\* datetime.now(): the wall-clock reading
NowV(t) == [now |-> t]
IsoDate(d) == [iso |-> d]
BadDate == [bad |-> TRUE]
\* the defaults '2020-01-01' and '2024-12-31', as day numbers of the model
DefaultStart == IsoDate(2)
DefaultEnd == IsoDate(8)

\* datetime.strptime(s, '%Y-%m-%d') raises ValueError on a string that does not parse
Parses(s) == "iso" \in DOMAIN s

\* randint's draws as plain numbers, for a range known to hold ints
IntDraws(a, b) == { x.v.int : x \in {y \in RandInt(IntV(a), IntV(b)) : y.ok} }

generate_date(start_date, end_date) ==
    IF ~Parses(start_date) \/ ~Parses(end_date) THEN {Raises}
    ELSE LET days_between == end_date.iso - start_date.iso
         IN  IF days_between < 0 THEN {Raises}
             ELSE { Value(DateV(start_date.iso + n)) : n \in IntDraws(0, days_between) }

generate_datetime(start_date, end_date) ==
    IF ~Parses(start_date) \/ ~Parses(end_date) THEN {Raises}
    ELSE LET seconds_between == (end_date.iso - start_date.iso) * DaySeconds
         IN  IF seconds_between < 0 THEN {Raises}
             ELSE { Value(DateTimeV(start_date.iso * DaySeconds + n))
                    : n \in IntDraws(0, seconds_between) }

\* start_time and end_time are [hms |-> seconds of the day] when they parse as
\* %H:%M:%S; the defaults are '00:00:00' and '23:59:59'
generate_time(kwargs) ==
    LET start_time == Arg(kwargs, "start_time", [hms |-> 0])
        end_time == Arg(kwargs, "end_time", [hms |-> 23 * 3600 + 59 * 60 + 59])
    IN  IF ~("hms" \in DOMAIN start_time /\ "hms" \in DOMAIN end_time) THEN {Raises}
        ELSE { IF x.ok THEN Value(TimeV(x.v.int)) ELSE Raises
               : x \in RandInt(IntV(start_time.hms), IntV(end_time.hms)) }

generate_date_range(start_date, end_date) ==
    UNION { IF ~s.ok THEN {Raises}
            ELSE { Value(RangeV(s.v.date, s.v.date + n)) : n \in IntDraws(1, 30) }
            : s \in generate_date(start_date, end_date) }

Weekday(t) == (t \div DaySeconds) % 7
\* while base_date.weekday() >= 5: base_date += timedelta(days=1)
RECURSIVE NextWeekday(_)
NextWeekday(t) == IF Weekday(t) >= 5 THEN NextWeekday(t + DaySeconds) ELSE t

\* random.random() < 0.7 takes the weekday branch
generate_signup_date(start_date, end_date) ==
    UNION { IF ~b.ok THEN {Raises}
            ELSE {Value(DateTimeV(NextWeekday(b.v.dt))), b}
            : b \in generate_datetime(start_date, end_date) }

\* base_date.replace(hour=h, minute=m, second=s)
ReplaceTime(t, h, m, sec) == (t \div DaySeconds) * DaySeconds + h * 3600 + m * 60 + sec

\* with random.random() < bias the time of day is redrawn within the hours lo..hi
\* (the model draws the first or the last hour, and 0 or 59 for minute and second)
WithHours(bases, lo, hi) ==
    UNION { IF ~b.ok THEN {Raises}
            ELSE {b} \cup { Value(DateTimeV(ReplaceTime(b.v.dt, h, ms, ms)))
                            : h \in {lo, hi}, ms \in {0, 59} }
            : b \in bases }

generate_transaction_date(start_date, end_date) ==
    WithHours(generate_datetime(start_date, end_date), 9, 17)

generate_post_date(start_date, end_date) ==
    WithHours(generate_datetime(start_date, end_date), 18, 23)

\* base_date.replace(second=0, microsecond=0)
generate_sensor_timestamp(start_date, end_date) ==
    { IF b.ok THEN Value(DateTimeV((b.v.dt \div 60) * 60)) ELSE Raises
      : b \in generate_datetime(start_date, end_date) }

\* self.date_types[date_type](**kwargs)
DateFunc(date_type, kwargs) ==
    LET start_date == Arg(kwargs, "start_date", DefaultStart)
        end_date == Arg(kwargs, "end_date", DefaultEnd)
    IN  CASE date_type = "date"             -> generate_date(start_date, end_date)
          [] date_type = "datetime"         -> generate_datetime(start_date, end_date)
          [] date_type = "time"             -> generate_time(kwargs)
          [] date_type = "date_range"       -> generate_date_range(start_date, end_date)
          [] date_type = "signup_date"      -> generate_signup_date(start_date, end_date)
          [] date_type = "transaction_date" -> generate_transaction_date(start_date, end_date)
          [] date_type = "hire_date"        -> generate_date(start_date, end_date)
          [] date_type = "visit_date"       -> generate_datetime(start_date, end_date)
          [] date_type = "post_date"        -> generate_post_date(start_date, end_date)
          [] date_type = "sensor_timestamp" -> generate_sensor_timestamp(start_date, end_date)

\* wall-clock readings
ClockReadings == {9 * DaySeconds + 5, 9 * DaySeconds + 6}
\* the except branch: data.append(datetime.now())
DateFallback == { NowV(t) : t \in ClockReadings }

-----------------------------------------------------------------------------
(* generate(count, subtype, **kwargs) of the three families *)

\* One pass of `try: value = generator_func(**kwargs) except Exception: <fallback>`:
\* the value appended and whether the synthesis had failed
ValueChoices(outcomes, fallbacks) ==
    { [v |-> o.v, failed |-> FALSE] : o \in {x \in outcomes : x.ok} }
    \cup (IF Raises \in outcomes THEN { [v |-> f, failed |-> TRUE] : f \in fallbacks }
          ELSE {})

\* `for _ in range(count)`: the columns the loop can build, with the positions
\* whose synthesis failed
GenerateLoop(count, outcomes, fallbacks) ==
    { [data |-> [i \in 1..count |-> c[i].v],
       failed |-> {i \in 1..count : c[i].failed}]
      : c \in [1..count -> ValueChoices(outcomes, fallbacks)] }

Without(kwargs, keys) == [key \in DOMAIN kwargs \ keys |-> kwargs[key]]

\* the outcome of a generate call that raised; nothing was produced
GenerateRaised(produced) ==
    [error |-> "ValueError", data |-> <<>>, failed |-> {}, nulled |-> {},
     generate_calls |-> 0, outliers |-> {}, produced |-> produced]

\* the loop's column through self.apply_constraints(data, kwargs) and, in the
\* numeric family when 'outlier_percentage' is given, self.introduce_outliers
Constrained(count, outcomes, fallbacks, kwargs, regen_pool, with_outliers) ==
    UNION { UNION {
        IF c.raised THEN {GenerateRaised(count)}
        ELSE IF with_outliers /\ Has(kwargs, "outlier_percentage")
        THEN { IF o.raised THEN GenerateRaised(count)
               ELSE [error |-> "none", data |-> o.data, failed |-> col.failed,
                     nulled |-> c.nulled, generate_calls |-> c.generate_calls,
                     outliers |-> o.outliers, produced |-> count]
               : o \in introduce_outliers(c.data, kwargs.outlier_percentage) }
        ELSE { [error |-> "none", data |-> c.data, failed |-> col.failed,
                nulled |-> c.nulled, generate_calls |-> c.generate_calls,
                outliers |-> {}, produced |-> count] }
        : c \in apply_constraints(col.data, kwargs, regen_pool) }
      : col \in GenerateLoop(count, outcomes, fallbacks) }

\* the values self.generate(1, **kwargs without unique and null_percentage)
\* returns to the regeneration loop: the subtype is not among the constraints,
\* so the family's default subtype is generated
RegenKeys == {"unique", "null_percentage"}
PoolOf(outcomes, fallbacks) == { c.v : c \in ValueChoices(outcomes, fallbacks) }

\* NumericGenerator.generate
generate_numeric(count, numeric_type, kwargs) ==
    IF numeric_type \notin numeric_types THEN {GenerateRaised(0)}
    ELSE Constrained(count, NumericFunc(numeric_type, kwargs), NumericFallback, kwargs,
                     PoolOf(NumericFunc("integer", Without(kwargs, RegenKeys)),
                            NumericFallback),
                     TRUE)

\* TextGenerator.generate
generate_text(count, text_type, kwargs, faker_raises) ==
    IF text_type \notin text_types THEN {GenerateRaised(0)}
    ELSE Constrained(count, TextFunc(text_type, kwargs, faker_raises), TextFallback, kwargs,
                     PoolOf(TextFunc("name", Without(kwargs, RegenKeys), faker_raises),
                            TextFallback),
                     FALSE)

\* DateGenerator.generate
generate_date_values(count, date_type, kwargs) ==
    IF date_type \notin date_types THEN {GenerateRaised(0)}
    ELSE Constrained(count, DateFunc(date_type, kwargs), DateFallback, kwargs,
                     PoolOf(DateFunc("date", Without(kwargs, RegenKeys)), DateFallback),
                     FALSE)

-----------------------------------------------------------------------------
(* DataAnonymizer (privacy/anonymizer.py) *)

\* the string literals of the module
MaskedPhone == <<"*", "*", "*", "-", "*", "*", "*", "-", "*", "*", "*", "*">>
MaskedAddress == <<"*", "*", "*", " ", "*", "*", "*", " ", "*", "*", "*">>
UserPrefix == <<"u", "s", "e", "r">>
ExampleDomain == <<"@", "e", "x", "a", "m", "p", "l", "e", ".", "c", "o", "m">>
PersonPrefix == <<"P", "e", "r", "s", "o", "n", " ">>
PhonePrefix == <<"5", "5", "5", "-">>
AnonymizedStreet == <<" ", "A", "n", "o", "n", "y", "m", "i", "z", "e", "d", " ", "S", "t">>
PseudonymPrefix == <<"P", "s", "e", "u", "d", "o", "n", "y", "m", "_">>
AgeUnknown == <<"U", "n", "k", "n", "o", "w", "n">>
AgeUnder18 == <<"U", "n", "d", "e", "r", " ", "1", "8">>
Age18to24 == <<"1", "8", "-", "2", "4">>
Age25to34 == <<"2", "5", "-", "3", "4">>
Age35to49 == <<"3", "5", "-", "4", "9">>
Age50Plus == <<"5", "0", "+">>
GeneralizedLocation == <<"G", "e", "n", "e", "r", "a", "l", "i", "z", "e", "d", " ", "L", "o", "c", "a", "t", "i", "o", "n">>
Generalized == <<"G", "e", "n", "e", "r", "a", "l", "i", "z", "e", "d">>

\* the decimals of repr(float): three places less the trailing zeros, one kept
Decimals(thousandths) ==
    LET d == <<DigitChars[(thousandths \div 100) + 1],
               DigitChars[((thousandths \div 10) % 10) + 1],
               DigitChars[(thousandths % 10) + 1]>>
    IN  IF thousandths % 100 = 0 THEN SubSeq(d, 1, 1)
        ELSE IF thousandths % 10 = 0 THEN SubSeq(d, 1, 2)
        ELSE d
Abs(x) == IF x < 0 THEN -x ELSE x
\* str(item) of a str, an int or a float
Str(v) ==
    IF IsStr(v) THEN v.str
    ELSE LET x == IF IsInt(v) THEN v.int ELSE v.flt
             sign == IF x < 0 THEN <<"-">> ELSE <<>>
         IN  IF IsInt(v) THEN sign \o Digits(Abs(x))
             ELSE sign \o Digits(Abs(x) \div 1000) \o <<".">> \o Decimals(Abs(x) % 1000)

Stars(n) == [i \in 1..n |-> "*"]
\* s[a:b] and s[a:] (0-based, clipped to the string)
Slice(s, a, b) == IF a >= Min2(b, Len(s)) THEN <<>> ELSE SubSeq(s, a + 1, Min2(b, Len(s)))
SliceFrom(s, a) == Slice(s, a, Len(s))
FirstIndex(s, c) == CHOOSE i \in 1..Len(s) : s[i] = c /\ \A j \in 1..(i - 1) : s[j] # c
\* s.split(c): the pieces between the occurrences of c, empty pieces kept
RECURSIVE SplitOn(_, _)
SplitOn(s, c) ==
    IF c \notin Range(s) THEN <<s>>
    ELSE LET i == FirstIndex(s, c)
         IN  <<SubSeq(s, 1, i - 1)>> \o SplitOn(SubSeq(s, i + 1, Len(s)), c)
IsNonEmpty(w) == Len(w) > 0
\* s.split(): the whitespace-delimited tokens (the model's whitespace is " ")
Words(s) == SelectSeq(SplitOn(s, " "), IsNonEmpty)
\* sep.join(words)
RECURSIVE Join(_, _)
Join(words, sep) ==
    IF Len(words) = 0 THEN <<>>
    ELSE IF Len(words) = 1 THEN words[1]
    ELSE words[1] \o sep \o Join(Tail(words), sep)
\* re.sub(r'\D', '', s)
OnlyDigits(s) == SelectSeq(s, IsDigit)

mask_email(item_str) ==
    IF "@" \in Range(item_str)
    THEN LET parts == SplitOn(item_str, "@")
         IN  IF Len(parts[1]) > 1
             THEN <<parts[1][1]>> \o Stars(Len(parts[1]) - 1) \o <<"@">> \o parts[2]
             ELSE <<"*", "@">> \o parts[2]
    ELSE item_str

mask_name(item_str) ==
    LET words == Words(item_str)
    IN  Join([i \in DOMAIN words |->
                IF Len(words[i]) > 1 THEN <<words[i][1]>> \o Stars(Len(words[i]) - 1)
                ELSE words[i]],
             <<" ">>)

mask_phone(item_str) ==
    LET digits == OnlyDigits(item_str)
        masked == Stars(Len(digits) - 4) \o SliceFrom(digits, Len(digits) - 4)
    IN  IF Len(digits) >= 4
        THEN IF "-" \in Range(item_str)
             THEN Slice(masked, 0, 3) \o <<"-">> \o Slice(masked, 3, 6) \o <<"-">>
                    \o SliceFrom(masked, 6)
             ELSE IF "(" \in Range(item_str)
             THEN <<"(">> \o Slice(masked, 0, 3) \o <<")", " ">> \o Slice(masked, 3, 6)
                    \o <<"-">> \o SliceFrom(masked, 6)
             ELSE masked
        ELSE MaskedPhone

mask_address(item_str) ==
    LET words == Words(item_str)
    IN  IF Len(words) > 0
        THEN Join([i \in DOMAIN words |->
                     IF i = 1 THEN words[1]
                     ELSE IF Len(words[i]) > 2
                     THEN <<words[i][1]>> \o Stars(Len(words[i]) - 1)
                     ELSE <<"*", "*">>],
                  <<" ">>)
        ELSE MaskedAddress

PiiTypes == {"email", "name", "phone", "address"}

\* _mask_pii: one output per item, None kept
mask_pii(data, field_type) ==
    [i \in DOMAIN data |->
        IF IsNone(data[i]) THEN None
        ELSE LET item_str == Str(data[i])
             IN  CASE field_type = "email"   -> StrV(mask_email(item_str))
                   [] field_type = "name"    -> StrV(mask_name(item_str))
                   [] field_type = "phone"   -> StrV(mask_phone(item_str))
                   [] field_type = "address" -> StrV(mask_address(item_str))
                   [] OTHER                  -> StrV(item_str)]

\* the alias a value not yet in pseudonym_map gets, n = len(pseudonym_map) + 1
NewPseudonyms(field_type, n) ==
    CASE field_type = "email" -> { UserPrefix \o Digits(n) \o ExampleDomain }
      [] field_type = "name"  -> { PersonPrefix \o Digits(n) }
      [] field_type = "phone" ->
            { PhonePrefix \o Digits(a) \o <<"-">> \o Digits(b)
              : a \in IntDraws(100, 999), b \in IntDraws(1000, 9999) }
      [] field_type = "address" ->
            { Digits(a) \o AnonymizedStreet : a \in IntDraws(100, 9999) }
      [] OTHER -> { PseudonymPrefix \o Digits(n) }

\* _pseudonymize, from item i on: the columns it can build given the map so far
RECURSIVE PseudonymizeFrom(_, _, _, _, _)
PseudonymizeFrom(data, field_type, i, pseudonym_map, anonymized) ==
    IF i > Len(data) THEN {anonymized}
    ELSE IF IsNone(data[i])
    THEN PseudonymizeFrom(data, field_type, i + 1, pseudonym_map, Append(anonymized, None))
    ELSE LET item_str == Str(data[i])
         IN  IF item_str \in DOMAIN pseudonym_map
             THEN PseudonymizeFrom(data, field_type, i + 1, pseudonym_map,
                                   Append(anonymized, StrV(pseudonym_map[item_str])))
             ELSE UNION {
                    PseudonymizeFrom(data, field_type, i + 1,
                        [k \in DOMAIN pseudonym_map \cup {item_str} |->
                            IF k = item_str THEN alias ELSE pseudonym_map[k]],
                        Append(anonymized, StrV(alias)))
                    : alias \in NewPseudonyms(field_type,
                                              Cardinality(DOMAIN pseudonym_map) + 1) }

pseudonymize(data, field_type) ==
    PseudonymizeFrom(data, field_type, 1, [k \in {} |-> <<>>], <<>>)

IsDateTime(v) == "dt" \in DOMAIN v \/ "now" \in DOMAIN v
\* a str that datetime.strptime(item, '%Y-%m-%d') parses is [iso |-> day]
IsDateString(v) == "iso" \in DOMAIN v

\* item + timedelta(days=n)
ShiftDays(v, n) ==
    IF "dt" \in DOMAIN v THEN DateTimeV(v.dt + n * DaySeconds)
    ELSE IF "now" \in DOMAIN v THEN NowV(v.now + n * DaySeconds)
    ELSE IsoDate(v.iso + n)

\* _fuzz_dates: the outputs of one item
FuzzItem(item, days_range) ==
    IF IsNone(item) THEN {None}
    ELSE IF IsDateTime(item) \/ IsDateString(item)
    THEN { ShiftDays(item, n) : n \in IntDraws(-days_range, days_range) }
    ELSE {item}

\* item * (1 + noise) for noise = random.uniform(-noise_level, noise_level), in
\* thousandths; an int is re-cast with int(round(...)), a float rounded to 2
NoiseItem(item, noise_level) ==
    IF IsNone(item) THEN {None}
    ELSE IF IsNumber(item)
    THEN { LET new_value == (Milli(item) * (1000 + noise.flt)) \div 1000
           IN  IF IsInt(item) THEN IntV(RoundHalfEven(new_value, 1000) \div 1000)
               ELSE PyRound(FltV(new_value), 2)
           : noise \in Uniform(FltV(-noise_level), FltV(noise_level)) }
    ELSE {item}

\* the columns a routine that treats each item on its own can return, given
\* the outcomes of each item
RECURSIVE Columns(_)
Columns(choices) ==
    IF Len(choices) = 0 THEN {<<>>}
    ELSE { Append(col, x) : col \in Columns(SubSeq(choices, 1, Len(choices) - 1)),
                            x \in choices[Len(choices)] }

fuzz_dates(data, days_range) ==
    Columns([i \in DOMAIN data |-> FuzzItem(data[i], days_range)])

add_noise(data, noise_level) ==
    Columns([i \in DOMAIN data |-> NoiseItem(data[i], noise_level)])

\* int(item_str): digits with an optional sign; anything else raises
ParsesAsInt(s) ==
    LET body == IF Len(s) > 0 /\ s[1] = "-" THEN Tail(s) ELSE s
    IN  Len(body) > 0 /\ \A i \in DOMAIN body : IsDigit(body[i])
DigitValue(c) == (CHOOSE d \in 1..10 : DigitChars[d] = c) - 1
RECURSIVE DigitsValue(_)
DigitsValue(s) ==
    IF Len(s) = 0 THEN 0
    ELSE DigitsValue(SubSeq(s, 1, Len(s) - 1)) * 10 + DigitValue(s[Len(s)])
ParseInt(s) == IF s[1] = "-" THEN -DigitsValue(Tail(s)) ELSE DigitsValue(s)

generalize_age(item_str) ==
    IF ~ParsesAsInt(item_str) THEN AgeUnknown
    ELSE LET age == ParseInt(item_str)
         IN  IF age < 18 THEN AgeUnder18
             ELSE IF age < 25 THEN Age18to24
             ELSE IF age < 35 THEN Age25to34
             ELSE IF age < 50 THEN Age35to49
             ELSE Age50Plus

\* _generalize_data
generalize_data(data, field_type) ==
    [i \in DOMAIN data |->
        IF IsNone(data[i]) THEN None
        ELSE LET item_str == Str(data[i])
             IN  CASE field_type = "city" -> StrV(GeneralizedLocation)
                   [] field_type = "zip_code" ->
                        IF Len(item_str) >= 3 THEN StrV(Slice(item_str, 0, 3) \o <<"*", "*">>)
                        ELSE StrV(<<"*", "*", "*">>)
                   [] field_type = "age" -> StrV(generalize_age(item_str))
                   [] OTHER -> StrV(Generalized)]

\* a medium level that fuzzes dates over the range of the high level
medium_anonymization_fuzzing_a_year(data, field_type) ==
    IF field_type \in PiiTypes THEN {mask_pii(data, field_type)}
    ELSE IF field_type \in {"date", "datetime"} THEN fuzz_dates(data, 365)
    ELSE IF field_type \in {"integer", "float"} THEN add_noise(data, 100)
    ELSE {data}

\* _medium_anonymization
medium_anonymization(data, field_type) ==
    IF field_type \in PiiTypes THEN {mask_pii(data, field_type)}
    ELSE IF field_type \in {"date", "datetime"} THEN fuzz_dates(data, 30)
    ELSE IF field_type \in {"integer", "float"} THEN add_noise(data, 100)
    ELSE {data}

\* _high_anonymization
high_anonymization(data, field_type) ==
    IF field_type \in PiiTypes THEN pseudonymize(data, field_type)
    ELSE IF field_type \in {"date", "datetime"} THEN fuzz_dates(data, 365)
    ELSE IF field_type \in {"integer", "float"} THEN add_noise(data, 200)
    ELSE {generalize_data(data, field_type)}

\* an anonymize_data without the branch for low, whose column then takes the
\* medium treatment
anonymize_data_without_low(data, field_type, anonymization_level) ==
    IF anonymization_level \in {"low", "medium"} THEN medium_anonymization(data, field_type)
    ELSE IF anonymization_level = "high" THEN high_anonymization(data, field_type)
    ELSE {data}

\* anonymize_data: the columns the call can return
anonymize_data(data, field_type, anonymization_level) ==
    IF anonymization_level = "low" THEN {data}
    ELSE IF anonymization_level = "medium" THEN medium_anonymization(data, field_type)
    ELSE IF anonymization_level = "high" THEN high_anonymization(data, field_type)
    ELSE {data}

\* regular expressions of the form \b t1 t2 ... tn \b, each token a character
\* class with the least and the most repetitions it takes
Token(class, min, max) == [class |-> class, min |-> min, max |-> max]
AtLeast(class, min) == [class |-> class, min |-> min, max |-> 64]
DigitClass == Range(DigitChars)
LetterClass == {"a", "b", "x", "J", "o", "D"}
WordClass == LetterClass \cup DigitClass \cup {"_"}

\* the positions just after a match of tokens k.. that starts at position pos
RECURSIVE MatchEnds(_, _, _, _)
MatchEnds(s, pos, tokens, k) ==
    IF k > Len(tokens) THEN {pos}
    ELSE UNION { MatchEnds(s, pos + n, tokens, k + 1)
                 : n \in { m \in tokens[k].min..Min2(tokens[k].max, Len(s) + 1 - pos)
                           : \A j \in pos..(pos + m - 1) : s[j] \in tokens[k].class } }

\* \b at position p: exactly one of the characters before and at p is a word
\* character
WordBoundary(s, p) ==
    (p > 1 /\ s[p - 1] \in WordClass) # (p <= Len(s) /\ s[p] \in WordClass)

\* re.search(pattern, s) finds a match
re_search(tokens, s) ==
    \E pos \in 1..(Len(s) + 1) :
        /\ WordBoundary(s, pos)
        /\ \E end \in MatchEnds(s, pos, tokens, 1) : WordBoundary(s, end)

pii_patterns ==
    [email |-> <<AtLeast(WordClass \cup {".", "%", "+", "-"}, 1), Token({"@"}, 1, 1),
                 AtLeast(LetterClass \cup DigitClass \cup {".", "-"}, 1),
                 Token({"."}, 1, 1), AtLeast(LetterClass \cup {"|"}, 2)>>,
     phone |-> <<Token(DigitClass, 3, 3), Token({"-", "."}, 0, 1), Token(DigitClass, 3, 3),
                 Token({"-", "."}, 0, 1), Token(DigitClass, 4, 4)>>,
     ssn |-> <<Token(DigitClass, 3, 3), Token({"-"}, 1, 1), Token(DigitClass, 2, 2),
               Token({"-"}, 1, 1), Token(DigitClass, 4, 4)>>,
     credit_card |-> <<Token(DigitClass, 4, 4), Token({"-", " ", "\n"}, 0, 1),
                       Token(DigitClass, 4, 4), Token({"-", " ", "\n"}, 0, 1),
                       Token(DigitClass, 4, 4), Token({"-", " ", "\n"}, 0, 1),
                       Token(DigitClass, 4, 4)>>,
     ip_address |-> <<Token(DigitClass, 1, 3), Token({"."}, 1, 1), Token(DigitClass, 1, 3),
                      Token({"."}, 1, 1), Token(DigitClass, 1, 3), Token({"."}, 1, 1),
                      Token(DigitClass, 1, 3)>>]
\* the order in which the dict of patterns is iterated
PiiPatternOrder == <<"email", "phone", "ssn", "credit_card", "ip_address">>

\* `if item`: None, zero and the empty string are skipped
Truthy(item) ==
    /\ NotNone(item)
    /\ IsInt(item) => item.int # 0
    /\ IsFlt(item) => item.flt # 0
    /\ IsStr(item) => item.str # <<>>

\* a list of high-risk types that leaves the credit card out
high_risk_types_without_card == {"ssn"}

high_risk_types == {"ssn", "credit_card"}

\* detect_pii
detect_pii(data, field_name) ==
    LET Matches(pii_type) ==
            Cardinality({ i \in DOMAIN data :
                            Truthy(data[i]) /\ re_search(pii_patterns[pii_type], Str(data[i])) })
        found == SelectSeq(PiiPatternOrder, LAMBDA pii_type : Matches(pii_type) > 0)
        pii_types == [k \in DOMAIN found |->
                        [type |-> found[k], matches |-> Matches(found[k]),
                         percentage |-> FltV((Matches(found[k]) * 100000) \div Len(data))]]
        pii_detected == Len(found) > 0
    IN  [field_name |-> field_name,
         total_records |-> Len(data),
         pii_detected |-> pii_detected,
         pii_types |-> pii_types,
         risk_level |-> IF ~pii_detected THEN "low"
                        ELSE IF \E k \in DOMAIN pii_types : pii_types[k].type \in high_risk_types
                        THEN "high"
                        ELSE "medium"]

-----------------------------------------------------------------------------
(* DifferentialPrivacy (privacy/differential_privacy.py).  epsilon, sensitivity *)
(* and the noise are in thousandths.                                          *)

\* np.random.laplace(0, scale): raises when scale < 0; the model draws a large
\* negative, a small positive and a large positive multiple of the scale
Laplace(scale) ==
    IF scale < 0 THEN {Raises}
    ELSE { Value(FltV(x)) : x \in {-(3 * scale), scale \div 4, 3 * scale} }

\* value + noise, rounded as the value's type asks: int(round(x)) for an int,
\* round(x, 2) for a float
Noisy(value, noise) ==
    LET noisy_value == Milli(value) + noise.flt
    IN  IF IsInt(value) THEN IntV(RoundHalfEven(noisy_value, 1000) \div 1000)
        ELSE PyRound(FltV(noisy_value), 2)

\* a noise loop that skips a null value without appending it
NoisyColumnsSkippingNulls(data, draws) ==
    LET kept == SelectSeq(data, NotNone)
    IN  { [raised |-> FALSE, data |-> col]
          : col \in Columns([i \in DOMAIN kept |-> { Noisy(kept[i], d.v) : d \in draws }]) }

\* one noise draw per non-null value; a failed draw makes the call raise
NoisyColumns(data, draws) ==
    IF Raises \in draws /\ \E i \in DOMAIN data : ~IsNone(data[i])
    THEN {[raised |-> TRUE, data |-> <<>>]}
    ELSE LET N(value) == IF IsNone(value) THEN {None}
                         ELSE { Noisy(value, d.v) : d \in draws }
         IN  { [raised |-> FALSE, data |-> col]
               : col \in Columns([i \in DOMAIN data |-> N(data[i])]) }

\* add_laplace_noise on an engine whose budget is epsilon
add_laplace_noise(epsilon, data, sensitivity) ==
    IF epsilon <= 0 THEN {[raised |-> FALSE, data |-> data]}
    ELSE NoisyColumns(data, Laplace((sensitivity * 1000) \div epsilon))

\* sqrt(2 * ln(1.25 / delta)) for the default delta = 1e-5, in thousandths
GaussianFactor == 4845

\* add_gaussian_noise with the default delta
add_gaussian_noise(epsilon, data, sensitivity) ==
    IF epsilon <= 0 THEN {[raised |-> FALSE, data |-> data]}
    ELSE NoisyColumns(data, Normal(0, (sensitivity * GaussianFactor) \div epsilon))

\* float('inf')
Infinity == [inf |-> TRUE]
EmptyString == StrV(<<>>)

\* tuple(record.get(qi, '') for qi in quasi_identifiers)
GroupKey(record, quasi_identifiers) ==
    [i \in DOMAIN quasi_identifiers |-> Get(record, quasi_identifiers[i], EmptyString)]

\* the dict `groups`: key -> number of records appended under it
GroupSizes(data, quasi_identifiers) ==
    LET keys == { GroupKey(data[i], quasi_identifiers) : i \in DOMAIN data }
    IN  [key \in keys |->
            Cardinality({i \in DOMAIN data : GroupKey(data[i], quasi_identifiers) = key})]

\* the loop's min(min_group_size, group_size) over the groups, from infinity
RECURSIVE MinOver(_, _)
MinOver(sizes, keys) ==
    IF keys = {} THEN Infinity
    ELSE LET key == CHOOSE x \in keys : TRUE
             rest == MinOver(sizes, keys \ {key})
         IN  IF rest = Infinity \/ sizes[key] < rest.int THEN IntV(sizes[key]) ELSE rest

\* a group violates when group_size < k
Violates(group_size, k) == group_size < k

check_k_anonymity(data, quasi_identifiers, k) ==
    IF Len(data) = 0 \/ Len(quasi_identifiers) = 0
    THEN [k_anonymity_satisfied |-> TRUE, min_group_size |-> Infinity,
          violations |-> 0, total_groups |-> 0]
    ELSE LET sizes == GroupSizes(data, quasi_identifiers)
             violations == Cardinality({key \in DOMAIN sizes : Violates(sizes[key], k)})
             min_group_size == MinOver(sizes, DOMAIN sizes)
         IN  [k_anonymity_satisfied |-> violations = 0,
              min_group_size |-> IF min_group_size # Infinity THEN min_group_size
                                 ELSE IntV(0),
              violations |-> violations,
              total_groups |-> Cardinality(DOMAIN sizes),
              k |-> k]

-----------------------------------------------------------------------------
(* DifferentialPrivacy: the histogram and the aggregations *)

\* np.random.laplace(0, sensitivity / self.epsilon): the division raises
\* ZeroDivisionError on an engine whose epsilon is 0
LaplaceOver(sensitivity, epsilon) ==
    IF epsilon = 0 THEN {Raises} ELSE Laplace((sensitivity * 1000) \div epsilon)

\* [x for x in data if x is not None]
CleanData(data) == SelectSeq(data, NotNone)

SeqMin(m) == CHOOSE x \in Range(m) : \A y \in Range(m) : x <= y
SeqMax(m) == CHOOSE x \in Range(m) : \A y \in Range(m) : x >= y
RECURSIVE SeqSum(_)
SeqSum(m) == IF m = <<>> THEN 0 ELSE Head(m) + SeqSum(Tail(m))

\* np.histogram(clean_data, bins=bins) on numbers (in thousandths): bins of equal
\* width from the minimum to the maximum, the last one closed on the right; a
\* column of one distinct value gets the range value - 0.5 .. value + 0.5
np_histogram(m, bins) ==
    LET first_edge == IF SeqMin(m) = SeqMax(m) THEN SeqMin(m) - 500 ELSE SeqMin(m)
        last_edge == IF SeqMin(m) = SeqMax(m) THEN SeqMax(m) + 500 ELSE SeqMax(m)
        width == last_edge - first_edge
        BinOf(x) == IF x = last_edge THEN bins ELSE ((x - first_edge) * bins) \div width + 1
    IN  [hist |-> [b \in 1..bins |-> Cardinality({i \in DOMAIN m : BinOf(m[i]) = b})],
         bin_edges |-> [e \in 1..(bins + 1) |-> first_edge + ((e - 1) * width) \div bins]]

\* the order of the characters the model's strings are made of
CharOrder == <<" ", "*", "-", ".", "0", "1", "2", "3", "4", "5", "6", "7", "8", "9", "@", "a", "b">>
CodePoint(c) == CHOOSE k \in DOMAIN CharOrder : CharOrder[k] = c
RECURSIVE StrLess(_, _)
StrLess(s, t) ==
    IF t = <<>> THEN FALSE
    ELSE IF s = <<>> THEN TRUE
    ELSE IF Head(s) = Head(t) THEN StrLess(Tail(s), Tail(t))
    ELSE CodePoint(Head(s)) < CodePoint(Head(t))

\* np.unique(clean_data, return_counts=True) on a list whose first element is
\* no number: numbers in the list become their strings; the distinct strings
\* come back sorted, each with the number of its occurrences
np_unique(clean_data) ==
    LET strs == [i \in DOMAIN clean_data |-> Str(clean_data[i])]
        unique_values == CHOOSE u \in Orderings(Range(strs)) :
                            \A i, j \in DOMAIN u : i < j => StrLess(u[i], u[j])
    IN  [unique_values |-> [k \in DOMAIN unique_values |-> StrV(unique_values[k])],
         counts |-> [k \in DOMAIN unique_values |->
                        Cardinality({i \in DOMAIN strs : strs[i] = unique_values[k]})]]

\* max(0, int(round(count + noise)))
NoisyCount(count, noise) ==
    IntV(Max2(0, RoundHalfEven(count * 1000 + noise.flt, 1000) \div 1000))

EmptyHistogram == [bins |-> <<>>, counts |-> <<>>, privacy_budget_used |-> IntV(0)]

\* a histogram that reports the scale of its noise as the budget it used
apply_private_histogram_reporting_scale(epsilon, data, bins) ==
    IF CleanData(data) = <<>> THEN {[raised |-> FALSE, result |-> EmptyHistogram]}
    ELSE { [raised |-> FALSE,
            result |-> [bins |-> <<>>, counts |-> <<>>,
                        privacy_budget_used |-> FltV(IF epsilon = 0 THEN 0
                                                     ELSE 1000000 \div epsilon)]] }

\* apply_private_histogram on an engine whose budget is epsilon
apply_private_histogram(epsilon, data, bins) ==
    LET clean_data == CleanData(data)
    IN  IF clean_data = <<>> THEN {[raised |-> FALSE, result |-> EmptyHistogram]}
        ELSE LET numeric == IsNumber(clean_data[1])
                 fails == numeric /\ (bins <= 0 \/ \E i \in DOMAIN clean_data :
                                                      ~IsNumber(clean_data[i]))
                 h == IF numeric
                      THEN np_histogram([i \in DOMAIN clean_data |-> Milli(clean_data[i])], bins)
                      ELSE np_unique(clean_data)
                 hist == IF numeric THEN h.hist ELSE h.counts
                 bin_centers == IF numeric
                                THEN [i \in 1..bins |->
                                        FltV((h.bin_edges[i] + h.bin_edges[i + 1]) \div 2)]
                                ELSE h.unique_values
                 draws == LaplaceOver(1000, epsilon)
             IN  IF fails \/ Raises \in draws THEN {[raised |-> TRUE]}
                 ELSE { [raised |-> FALSE,
                         result |-> [bins |-> bin_centers, counts |-> noisy_counts,
                                     privacy_budget_used |-> FltV(epsilon)]]
                        : noisy_counts \in
                            Columns([b \in DOMAIN hist |->
                                        { NoisyCount(hist[b], d.v) : d \in draws }]) }

\* the largest r with r * r <= x, for lo * lo <= x < hi * hi
RECURSIVE ISqrtIn(_, _, _)
ISqrtIn(x, lo, hi) ==
    IF hi - lo <= 1 THEN lo
    ELSE LET mid == (lo + hi) \div 2
         IN  IF mid * mid <= x THEN ISqrtIn(x, mid, hi) ELSE ISqrtIn(x, lo, mid)

np_mean(m) == SeqSum(m) \div Len(m)
np_median(m) ==
    LET sorted == CHOOSE p \in [DOMAIN m -> Range(m)] :
                     /\ \A x \in Range(m) :
                           Cardinality({i \in DOMAIN m : p[i] = x})
                              = Cardinality({i \in DOMAIN m : m[i] = x})
                     /\ \A i, j \in DOMAIN m : i < j => p[i] <= p[j]
        n == Len(m)
    IN  IF n % 2 = 1 THEN sorted[(n + 1) \div 2]
        ELSE (sorted[n \div 2] + sorted[n \div 2 + 1]) \div 2
np_std(m) ==
    LET mean == np_mean(m)
        variance == SeqSum([i \in DOMAIN m |-> (m[i] - mean) * (m[i] - mean)]) \div Len(m)
    IN  ISqrtIn(variance, 0, 46340)

\* private_mean, private_median and private_std on a list of numbers without
\* None: round(statistic + noise, 2), the deviation kept non-negative
PrivateStatistic(true_value, nonnegative, sensitivity, epsilon) ==
    { IF ~d.ok THEN Raises
      ELSE Value(PyRound(FltV(IF nonnegative THEN Max2(0, true_value + d.v.flt)
                              ELSE true_value + d.v.flt), 2))
      : d \in LaplaceOver(sensitivity, epsilon) }

\* private_mean, private_median, private_std: 0.0 for a list without values
PrivateOf(true_value, nonnegative, epsilon, data, sensitivity) ==
    IF CleanData(data) = <<>> THEN {[raised |-> FALSE, result |-> FltV(0)]}
    ELSE { IF ~s.ok THEN [raised |-> TRUE] ELSE [raised |-> FALSE, result |-> s.v]
           : s \in PrivateStatistic(true_value, nonnegative, sensitivity, epsilon) }
CleanMilli(data) == [i \in DOMAIN CleanData(data) |-> Milli(CleanData(data)[i])]
private_mean(epsilon, data, sensitivity) ==
    PrivateOf(IF CleanData(data) = <<>> THEN 0 ELSE np_mean(CleanMilli(data)), FALSE,
              epsilon, data, sensitivity)
private_median(epsilon, data, sensitivity) ==
    PrivateOf(IF CleanData(data) = <<>> THEN 0 ELSE np_median(CleanMilli(data)), FALSE,
              epsilon, data, sensitivity)
private_std(epsilon, data, sensitivity) ==
    PrivateOf(IF CleanData(data) = <<>> THEN 0 ELSE np_std(CleanMilli(data)), TRUE,
              epsilon, data, sensitivity)

EmptyAggregation ==
    [mean |-> FltV(0), median |-> FltV(0), std |-> FltV(0), min |-> FltV(0), max |-> FltV(0),
     privacy_budget_used |-> IntV(0)]

\* apply_private_aggregation on an engine whose budget is epsilon
apply_private_aggregation(epsilon, data) ==
    LET clean_data == CleanData(data)
    IN  IF clean_data = <<>> THEN {[raised |-> FALSE, result |-> EmptyAggregation]}
        ELSE IF \E i \in DOMAIN clean_data : ~IsNumber(clean_data[i])
        THEN {[raised |-> TRUE]}
        ELSE LET m == [i \in DOMAIN clean_data |-> Milli(clean_data[i])]
                 data_range == SeqMax(m) - SeqMin(m)
                 sensitivity == data_range \div Len(clean_data)
                 ItemAt(x) == clean_data[CHOOSE i \in DOMAIN m : m[i] = x]
             IN  { IF ~mean.ok \/ ~median.ok \/ ~std.ok THEN [raised |-> TRUE]
                   ELSE [raised |-> FALSE,
                         result |-> [mean |-> mean.v, median |-> median.v, std |-> std.v,
                                     min |-> ItemAt(SeqMin(m)), max |-> ItemAt(SeqMax(m)),
                                     privacy_budget_used |-> FltV(epsilon)]]
                   : mean \in PrivateStatistic(np_mean(m), FALSE, sensitivity, epsilon),
                     median \in PrivateStatistic(np_median(m), FALSE, sensitivity, epsilon),
                     std \in PrivateStatistic(np_std(m), TRUE, sensitivity, epsilon) }

-----------------------------------------------------------------------------
(* SchemaValidator (utils/validators.py).  A dict is [dict |-> map], a list *)
(* is [list |-> sequence]; the type of a field is a plain string.           *)

Dict(m) == [dict |-> m]
ListV(s) == [list |-> s]
IsDict(v) == "dict" \in DOMAIN v
IsList(v) == "list" \in DOMAIN v

KeyChars(key) ==
    CASE key = "name" -> <<"n", "a", "m", "e">>
      [] key = "type" -> <<"t", "y", "p", "e">>
      [] OTHER -> <<"c", "o", "n", "s", "t", "r", "a", "i", "n", "t", "s">>

\* `key in field`: a key test on a dict, a substring test on a str, a
\* membership test on a list, TypeError on None and on a number
KeyIn(key, field) ==
    IF IsDict(field) THEN Value(key \in DOMAIN field.dict)
    ELSE IF IsStr(field) THEN Value(Contains(field.str, KeyChars(key)))
    ELSE IF IsList(field) THEN Value(StrV(KeyChars(key)) \in Range(field.list))
    ELSE Raises

\* an error string: f"Field {index}: {text}", or the text alone for the schema
FieldError(index, text) == [index |-> index, text |-> text]
SchemaError(text) == [text |-> text]

Whitespace == {" ", "\n"}
IdentifierStart == {"a", "b", "_"}
IdentifierPart == IdentifierStart \cup Range(DigitChars)

\* item.strip() is not empty
StripsToNonEmpty(s) == \E i \in DOMAIN s : s[i] \notin Whitespace

\* re.match(r'^[a-zA-Z_][a-zA-Z0-9_]*$', s): `$` matches at the end and also
\* just before a newline that ends the string
MatchesIdentifier(s) ==
    LET body == IF Len(s) >= 2 /\ s[Len(s)] = "\n" THEN SubSeq(s, 1, Len(s) - 1) ELSE s
        Word(w) == /\ Len(w) >= 1
                   /\ w[1] \in IdentifierStart
                   /\ \A i \in 2..Len(w) : w[i] \in IdentifierPart
    IN  Word(s) \/ Word(body)

valid_types == {"text", "integer", "float", "date", "boolean", "categorical"}

\* constraints['min_val'] > constraints['max_val']: numbers compare, two strings
\* compare, anything else is a TypeError
GreaterThan(a, b) ==
    IF IsNumber(a) /\ IsNumber(b) THEN Value(Milli(a) > Milli(b))
    ELSE IF IsStr(a) /\ IsStr(b) THEN Value(StrLess(b.str, a.str))
    ELSE Raises

\* datetime.strptime(value, '%Y-%m-%d'): the date; ValueError, which the caller
\* catches, for a string of another form (BadDate here); TypeError for a value
\* that is no string
Strptime(v) ==
    IF Parses(v) THEN Value(v)
    ELSE IF v = BadDate \/ IsStr(v) THEN Value(BadDate)
    ELSE Raises

\* validate_constraints: the list of errors, unless an exception escapes
validate_constraints(constraints, field_type, field_index) ==
    IF ~IsDict(constraints) THEN Raises
    ELSE
    LET c == constraints.dict
        numeric ==
            IF field_type \in {"integer", "float"} /\ Has(c, "min_val") /\ Has(c, "max_val")
            THEN LET gt == GreaterThan(c.min_val, c.max_val)
                 IN  IF ~gt.ok THEN Raises
                     ELSE Value(IF gt.v
                                THEN <<FieldError(field_index, "min_val cannot be greater than max_val")>>
                                ELSE <<>>)
            ELSE Value(<<>>)
        DateError(key, text) ==
            IF field_type = "date" /\ Has(c, key)
            THEN LET parsed == Strptime(c[key])
                 IN  IF ~parsed.ok THEN Raises
                     ELSE Value(IF ~Parses(parsed.v) THEN <<FieldError(field_index, text)>>
                                ELSE <<>>)
            ELSE Value(<<>>)
        start == DateError("start_date", "start_date must be in YYYY-MM-DD format")
        end == DateError("end_date", "end_date must be in YYYY-MM-DD format")
        order ==
            IF field_type = "date" /\ Has(c, "start_date") /\ Has(c, "end_date")
               /\ Parses(c.start_date) /\ Parses(c.end_date) /\ c.start_date.iso > c.end_date.iso
            THEN <<FieldError(field_index, "start_date cannot be after end_date")>>
            ELSE <<>>
        categories ==
            IF field_type = "categorical" /\ Has(c, "categories")
               /\ (~IsList(c.categories) \/ Len(c.categories.list) = 0)
            THEN <<FieldError(field_index, "categories must be a non-empty list")>>
            ELSE <<>>
        null_percentage ==
            IF Has(c, "null_percentage")
               /\ (~(IsNumber(c.null_percentage) \/ "bool" \in DOMAIN c.null_percentage)
                   \/ (IsNumber(c.null_percentage)
                       /\ (Milli(c.null_percentage) < 0 \/ Milli(c.null_percentage) > 100000)))
            THEN <<FieldError(field_index, "null_percentage must be between 0 and 100")>>
            ELSE <<>>
    IN  IF ~numeric.ok \/ ~start.ok \/ ~end.ok THEN Raises
        ELSE Value(numeric.v \o start.v \o end.v \o order \o categories \o null_percentage)

\* validate_field: the list of errors of one element of schema['fields']
validate_field(field, index) ==
    LET has_name == KeyIn("name", field)
        has_type == KeyIn("type", field)
        has_constraints == KeyIn("constraints", field)
    IN  IF ~has_name.ok THEN Raises
        ELSE IF (has_name.v \/ has_type.v \/ has_constraints.v) /\ ~IsDict(field) THEN Raises
        ELSE
        LET f == IF IsDict(field) THEN field.dict ELSE EmptyMap
            missing == (IF has_name.v THEN <<>>
                        ELSE <<FieldError(index, "Missing required property 'name'")>>)
                       \o (IF has_type.v THEN <<>>
                           ELSE <<FieldError(index, "Missing required property 'type'")>>)
            name == IF ~has_name.v THEN <<>>
                    ELSE IF ~IsStr(f.name) \/ ~StripsToNonEmpty(f.name.str)
                    THEN <<FieldError(index, "'name' must be a non-empty string")>>
                    ELSE IF ~MatchesIdentifier(f.name.str)
                    THEN <<FieldError(index, "'name' must be a valid identifier")>>
                    ELSE <<>>
            type == IF has_type.v /\ f.type \notin valid_types
                    THEN <<FieldError(index, "'type' must be one of valid_types")>>
                    ELSE <<>>
            constraint_errors ==
                IF has_constraints.v
                THEN validate_constraints(f.constraints, Get(f, "type", "None"), index)
                ELSE Value(<<>>)
        IN  IF ~constraint_errors.ok THEN Raises
            ELSE Value(missing \o name \o type \o constraint_errors.v)

\* the errors of the fields from position i on (index i - 1 in the list)
RECURSIVE FieldErrorsFrom(_, _)
FieldErrorsFrom(fields, i) ==
    IF i > Len(fields) THEN Value(<<>>)
    ELSE LET field_errors == validate_field(fields[i], i - 1)
             rest == FieldErrorsFrom(fields, i + 1)
         IN  IF ~field_errors.ok \/ ~rest.ok THEN Raises
             ELSE Value(field_errors.v \o rest.v)

\* validate_schema on a dict: the result, and the schema as the call leaves it
validate_schema(schema) ==
    LET s == schema.dict
        required == (IF Has(s, "name") THEN <<>>
                     ELSE <<SchemaError("Schema must have a 'name' field")>>)
                    \o (IF Has(s, "fields") THEN <<>>
                        ELSE <<SchemaError("Schema must have a 'fields' field")>>)
        field_errors == IF ~Has(s, "fields") THEN Value(<<>>)
                        ELSE IF ~IsList(s.fields)
                        THEN Value(<<SchemaError("'fields' must be a list")>>)
                        ELSE FieldErrorsFrom(s.fields.list, 1)
    IN  IF ~field_errors.ok THEN [raised |-> TRUE, schema |-> schema]
        ELSE LET errors == required \o field_errors.v
             IN  [raised |-> FALSE, schema |-> schema,
                  result |-> [valid |-> Len(errors) = 0, errors |-> errors, warnings |-> <<>>]]

-----------------------------------------------------------------------------
(* SyntheticDataApp.generate_data (app.py)                                    *)

BoolV(b) == [bool |-> b]
\* current_schema before a template is loaded or a schema is built
NoSchema == [none |-> TRUE]
DefaultCategories ==
    <<StrV(<<"O", "p", "t", "i", "o", "n", "1">>), StrV(<<"O", "p", "t", "i", "o", "n", "2">>),
      StrV(<<"O", "p", "t", "i", "o", "n", "3">>)>>

\* a field loop that catches the error of generate and stores None instead
FirstOfSwallowingErrors(outcomes) ==
    { IF o.error # "none" THEN Value(None) ELSE Value(o.data[1]) : o \in outcomes }

\* generator.generate(1, field_subtype, **constraints)[0]
FirstOf(outcomes) ==
    { IF o.error # "none" THEN Raises ELSE Value(o.data[1]) : o \in outcomes }

\* the value of one field of row i (rows count from 0)
FieldValue(field, i, faker_raises) ==
    LET field_type == field.type
        field_subtype == Get(field, "subtype", "custom")
        constraints == Get(field, "constraints", EmptyMap)
    IN  CASE field_type = "text" ->
                FirstOf(generate_text(1, field_subtype, constraints, faker_raises))
          [] field_type \in {"integer", "float"} ->
                FirstOf(generate_numeric(1, field_subtype, constraints))
          [] field_type = "date" ->
                FirstOf(generate_date_values(1, field_subtype, constraints))
          [] field_type = "boolean" -> { Value(BoolV(b)) : b \in BOOLEAN }
          [] field_type = "categorical" ->
                LET categories == Get(constraints, "categories", DefaultCategories)
                IN  IF Len(categories) = 0 THEN {Raises}
                    ELSE { Value(categories[c]) : c \in DOMAIN categories }
          [] OTHER -> { Value(StrV(GeneratedPrefix \o Digits(i))) }

\* record[field_name] = value
Put(record, field_name, value) ==
    [key \in DOMAIN record \cup {field_name} |->
        IF key = field_name THEN value ELSE record[key]]

\* the records the field loop can build for row i, from field j on
RECURSIVE FillRecord(_, _, _, _, _)
FillRecord(fields, j, i, record, faker_raises) ==
    IF j > Len(fields) THEN {Value(record)}
    ELSE UNION { IF ~x.ok THEN {Raises}
                 ELSE FillRecord(fields, j + 1, i, Put(record, fields[j].name, x.v),
                                 faker_raises)
                 : x \in FieldValue(fields[j], i, faker_raises) }

\* `for i in range(num_rows)`: the lists of records the loop can build
RECURSIVE BuildRows(_, _, _, _, _)
BuildRows(fields, i, num_rows, data, faker_raises) ==
    IF i >= num_rows THEN {Value(data)}
    ELSE UNION { IF ~r.ok THEN {Raises}
                 ELSE BuildRows(fields, i + 1, num_rows, Append(data, r.v), faker_raises)
                 : r \in FillRecord(fields, 1, i, EmptyMap, faker_raises) }

\* the missing-values step: random.sample picks the rows, random.choice a key of
\* each picked row
MissingValues(data, missing_percentage) ==
    IF missing_percentage <= 0 THEN {Value(data)}
    ELSE LET missing_count == (Len(data) * missing_percentage) \div 100
         IN  IF missing_count > Len(data) THEN {Raises}
             ELSE UNION {
                    IF \E idx \in missing_indices : DOMAIN data[idx] = {} THEN {Raises}
                    ELSE { Value([idx \in DOMAIN data |->
                                    IF idx \in missing_indices
                                    THEN Put(data[idx], field_to_null[idx], None)
                                    ELSE data[idx]])
                           : field_to_null \in
                               { f \in [missing_indices -> UNION {DOMAIN data[x] : x \in missing_indices}]
                                 : \A idx \in missing_indices : f[idx] \in DOMAIN data[idx] } }
                    : missing_indices \in SubsetsOfSize(DOMAIN data, missing_count) }

\* a duplicates step whose count is rounded up
DuplicatesRoundedUp(rows, duplicate_percentage) ==
    IF duplicate_percentage <= 0 THEN {Value([i \in 1..rows |-> i])}
    ELSE LET duplicate_count == (rows * duplicate_percentage + 99) \div 100
         IN  IF duplicate_count > 0 /\ rows = 0 THEN {Raises}
             ELSE { Value([i \in 1..(rows + duplicate_count) |->
                             IF i <= rows THEN i ELSE duplicates[i - rows]])
                    : duplicates \in [1..duplicate_count -> 1..rows] }

\* the duplicates step: data.extend(random.choices(data, k)) appends the chosen
\* dicts themselves, so the list is modelled as references into the list of the
\* first rows
Duplicates(rows, duplicate_percentage) ==
    IF duplicate_percentage <= 0 THEN {Value([i \in 1..rows |-> i])}
    ELSE LET duplicate_count == (rows * duplicate_percentage) \div 100
         IN  IF duplicate_count > 0 /\ rows = 0 THEN {Raises}
             ELSE { Value([i \in 1..(rows + duplicate_count) |->
                             IF i <= rows THEN i ELSE duplicates[i - rows]])
                    : duplicates \in [1..duplicate_count -> 1..rows] }

\* the last position of the list that refers to row r
LastRef(refs, r) == CHOOSE i \in DOMAIN refs : refs[i] = r /\ \A j \in DOMAIN refs : refs[j] = r => j <= i

\* the privacy loop from field j on: the column is read through the references,
\* anonymized, and written back position by position
RECURSIVE PrivacyLoop(_, _, _, _, _)
PrivacyLoop(fields, j, rows, refs, privacy_level) ==
    IF j > Len(fields) THEN {rows}
    ELSE LET field_name == fields[j].name
             field_values == [i \in DOMAIN refs |-> rows[refs[i]][field_name]]
         IN  UNION { PrivacyLoop(fields, j + 1,
                        [r \in DOMAIN rows |->
                            Put(rows[r], field_name, anonymized_values[LastRef(refs, r)])],
                        refs, privacy_level)
                     : anonymized_values \in
                         anonymize_data(field_values, fields[j].type, privacy_level) }

\* self.generated_data holding a list of records (None before any run)
Stored(data) == [rows |-> data]

RunError(generated_data) ==
    [status |-> "error", data |-> <<>>, records |-> 0, generated_data |-> generated_data]

\* an outlier step the run does not have: the first integer column of the
\* generated rows goes through introduce_outliers
OutlierStep(fields, data, outlier_percentage) ==
    LET numeric == { j \in DOMAIN fields : fields[j].type = "integer" }
    IN  IF numeric = {} \/ outlier_percentage <= 0 THEN {data}
        ELSE LET field_name == fields[CHOOSE j \in numeric : \A k \in numeric : j <= k].name
                 column == [i \in DOMAIN data |-> data[i][field_name]]
             IN  { [i \in DOMAIN data |-> Put(data[i], field_name, o.data[i])]
                   : o \in { x \in introduce_outliers(column, outlier_percentage) : ~x.raised } }

\* a generate_data that runs the outlier step on the rows it is about to store
generate_data_with_outlier_step(current_schema, generated_data, num_rows, privacy_level, missing_percentage, outlier_percentage, duplicate_percentage, faker_raises) ==
    IF current_schema = NoSchema
    THEN {[status |-> "no_schema", data |-> <<>>, records |-> 0,
           generated_data |-> generated_data]}
    ELSE LET fields == current_schema.fields
         IN  UNION { IF ~built.ok THEN {RunError(generated_data)}
                     ELSE UNION {
                       IF ~nulled.ok THEN {RunError(generated_data)}
                       ELSE UNION {
                         IF ~refs.ok THEN {RunError(generated_data)}
                         ELSE UNION {
                                { [status |-> "success", data |-> data,
                                   records |-> Len(data), generated_data |-> Stored(data)]
                                  : data \in OutlierStep(fields,
                                                [i \in DOMAIN refs.v |-> rows[refs.v[i]]],
                                                outlier_percentage) }
                                : rows \in IF privacy_level # "low"
                                           THEN PrivacyLoop(fields, 1, nulled.v, refs.v,
                                                            privacy_level)
                                           ELSE {nulled.v} }
                         : refs \in Duplicates(Len(nulled.v), duplicate_percentage) }
                       : nulled \in MissingValues(built.v, missing_percentage) }
                     : built \in BuildRows(fields, 0, num_rows, <<>>, faker_raises) }

\* a generate_data whose duplicates are copies of the records: the privacy
\* loop then writes each position of the list on its own
generate_data_copying_duplicates(current_schema, generated_data, num_rows, privacy_level, missing_percentage, outlier_percentage, duplicate_percentage, faker_raises) ==
    IF current_schema = NoSchema
    THEN {[status |-> "no_schema", data |-> <<>>, records |-> 0,
           generated_data |-> generated_data]}
    ELSE LET fields == current_schema.fields
         IN  UNION { IF ~built.ok THEN {RunError(generated_data)}
                     ELSE UNION {
                       IF ~nulled.ok THEN {RunError(generated_data)}
                       ELSE UNION {
                         IF ~refs.ok THEN {RunError(generated_data)}
                         ELSE LET copies == [i \in DOMAIN refs.v |-> nulled.v[refs.v[i]]]
                              IN  { [status |-> "success", data |-> data,
                                     records |-> Len(data), generated_data |-> Stored(data)]
                                    : data \in IF privacy_level # "low"
                                               THEN PrivacyLoop(fields, 1, copies,
                                                                [i \in DOMAIN copies |-> i],
                                                                privacy_level)
                                               ELSE {copies} }
                         : refs \in Duplicates(Len(nulled.v), duplicate_percentage) }
                       : nulled \in MissingValues(built.v, missing_percentage) }
                     : built \in BuildRows(fields, 0, num_rows, <<>>, faker_raises) }

\* generate_data: what the call returns and what the app holds afterwards
generate_data(current_schema, generated_data, num_rows, privacy_level, missing_percentage, outlier_percentage, duplicate_percentage, faker_raises) ==
    IF current_schema = NoSchema
    THEN {[status |-> "no_schema", data |-> <<>>, records |-> 0,
           generated_data |-> generated_data]}
    ELSE LET fields == current_schema.fields
         IN  UNION { IF ~built.ok THEN {RunError(generated_data)}
                     ELSE UNION {
                       IF ~nulled.ok THEN {RunError(generated_data)}
                       ELSE UNION {
                         IF ~refs.ok THEN {RunError(generated_data)}
                         ELSE { LET data == [i \in DOMAIN refs.v |-> rows[refs.v[i]]]
                                IN  [status |-> "success", data |-> data,
                                     records |-> Len(data), generated_data |-> Stored(data)]
                                : rows \in IF privacy_level # "low"
                                           THEN PrivacyLoop(fields, 1, nulled.v, refs.v,
                                                            privacy_level)
                                           ELSE {nulled.v} }
                         : refs \in Duplicates(Len(nulled.v), duplicate_percentage) }
                       : nulled \in MissingValues(built.v, missing_percentage) }
                     : built \in BuildRows(fields, 0, num_rows, <<>>, faker_raises) }

-----------------------------------------------------------------------------
(* The calls of the generation specification *)

\* values a column under test holds
ColumnValues == {None, IntV(1), IntV(2)}
\* null_percentage values (the constraint's range is 0..100)
Percentages == {0, 25, 50, 75, 100}

\* constraints maps over the keys null_percentage and unique, each optional
ConstraintMaps ==
    { [key \in K |-> IF key = "null_percentage" THEN p ELSE u]
      : K \in SUBSET {"null_percentage", "unique"}, p \in Percentages, u \in BOOLEAN }

ApplyConstraintsCalls ==
    { [op |-> "apply_constraints", data |-> d, constraints |-> c]
      : d \in SeqsUpTo(ColumnValues, MaxLen), c \in ConstraintMaps }


\* duplicate_percentage values: below zero, zero, and above one hundred
DuplicatePercentages == {0 - 50, 0, 25, 50, 100, 125}

CreateDuplicatesCalls ==
    { [op |-> "create_duplicates", data |-> d, duplicate_percentage |-> p]
      : d \in SeqsUpTo(ColumnValues, MaxLen), p \in DuplicatePercentages }

\* values of a column handed to introduce_outliers: a null, an int, a float and
\* a string
OutlierColumnValues == {None, IntV(2), FltV(1500), StrV(<<"a">>)}

IntroduceOutliersCalls ==
    { [op |-> "introduce_outliers", data |-> d, outlier_percentage |-> p]
      : d \in SeqsUpTo(OutlierColumnValues, MaxLen), p \in DuplicatePercentages }

\* the constraint-engine keys a generate call carries besides its bounds
EngineKwargs ==
    { EmptyMap, [null_percentage |-> 50], [null_percentage |-> 100], [unique |-> TRUE],
      [unique |-> FALSE], [outlier_percentage |-> 50] }

\* numeric bounds: whole numbers and values between two rounding steps
BoundValues == {IntV(18), FltV(18004), FltV(20060), IntV(21)}
NumericBounds ==
    {EmptyMap} \cup { [min_val |-> a, max_val |-> b] : a, b \in BoundValues }

\* a subtype string that is in no family's dispatch table
UnknownSubtype == "no_such_subtype"

\* Thousandths are kept in 32-bit integers: 100 times a salary of the default
\* range does not fit, so an outlier call for salaries carries its own bounds.
NumericCalls ==
    { c \in { [op |-> "generate_numeric", count |-> n, subtype |-> t,
               kwargs |-> Merge(b, e)]
              : n \in 0..MaxCount, t \in numeric_types \cup {UnknownSubtype, "name"},
                b \in NumericBounds, e \in EngineKwargs }
      : ~(c.subtype = "salary" /\ Has(c.kwargs, "outlier_percentage")
            /\ ~Has(c.kwargs, "max_val")) }

TextPatterns == { <<"h", "i">>, <<"{", "n", "a", "m", "e", "}", "!">> }
TextKwargs == {EmptyMap} \cup { [pattern |-> p] : p \in TextPatterns }
TextCalls ==
    { [op |-> "generate_text", count |-> n, subtype |-> t, kwargs |-> Merge(k, e),
       faker_raises |-> f]
      : n \in 0..MaxCount, t \in text_types \cup {UnknownSubtype, "age"},
        k \in TextKwargs, e \in EngineKwargs \ {[outlier_percentage |-> 50]},
        f \in BOOLEAN }

DateStrings == {IsoDate(3), IsoDate(6), BadDate}
DateKwargs ==
    {EmptyMap} \cup { [start_date |-> a, end_date |-> b] : a, b \in DateStrings }
DateCalls ==
    { [op |-> "generate_date", count |-> n, subtype |-> t, kwargs |-> Merge(k, e)]
      : n \in 0..MaxCount, t \in date_types \cup {UnknownSubtype, "age"},
        k \in DateKwargs, e \in EngineKwargs \ {[outlier_percentage |-> 50]} }

\* schemas: a field is a map with name and type, and optionally subtype and
\* constraints
Field(name, type, subtype) == [name |-> name, type |-> type, subtype |-> subtype]
FieldWith(name, type, subtype, constraints) ==
    [name |-> name, type |-> type, subtype |-> subtype, constraints |-> constraints]
AgeBounds == [min_val |-> IntV(18), max_val |-> IntV(21)]
Schemas ==
    { NoSchema,
      [fields |-> <<>>],
      [fields |-> <<FieldWith("age", "integer", "age", AgeBounds)>>],
      [fields |-> <<Field("email", "text", "email")>>],
      [fields |-> <<Field("email", "text", UnknownSubtype)>>],
      [fields |-> <<[name |-> "n", type |-> "integer"]>>],
      [fields |-> <<[name |-> "note", type |-> "text"], Field("day", "date", UnknownSubtype)>>],
      [fields |-> <<Field("day", "date", "visit_date")>>],
      [fields |-> <<Field("n", "float", "percentage")>>],
      [fields |-> <<[name |-> "flag", type |-> "boolean"], [name |-> "id", type |-> "uuid"]>>],
      [fields |-> <<FieldWith("c", "categorical", "custom", [categories |-> <<>>])>>],
      [fields |-> <<[name |-> "c", type |-> "categorical"],
                    FieldWith("c", "integer", "age", Merge(AgeBounds, [unique |-> TRUE]))>>],
      [fields |-> <<FieldWith("age", "integer", "age",
                              Merge(AgeBounds, [null_percentage |-> 100]))>>],
      [fields |-> <<FieldWith("age", "integer", "age",
                              Merge(AgeBounds, [null_percentage |-> 50]))>>] }

\* a dataset left by an earlier run
EarlierData == Stored(<<[old |-> IntV(1)]>>)

RunCalls ==
    { c \in { [op |-> "generate_data", current_schema |-> sc, generated_data |-> g,
               num_rows |-> n, privacy_level |-> l, missing_percentage |-> m,
               outlier_percentage |-> o, duplicate_percentage |-> d, faker_raises |-> f]
              : sc \in Schemas, g \in {None, EarlierData}, n \in 0..MaxRows,
                l \in {"low", "medium", "high"}, m \in {0, 50, 100}, o \in {0, 50},
                d \in {0, 50}, f \in BOOLEAN }
      : c.faker_raises => c.current_schema = [fields |-> <<Field("email", "text", "email")>>] }

NoRet == [raised |-> FALSE]
\* the single calls of this specification run on no object that outlives them
NoObject == [none |-> TRUE]

InitGen ==
    /\ pc = "call"
    /\ call \in ApplyConstraintsCalls \cup CreateDuplicatesCalls \cup IntroduceOutliersCalls
               \cup NumericCalls \cup TextCalls \cup DateCalls
    /\ ret = NoRet
    /\ self = NoObject

ApplyConstraints ==
    /\ pc = "call"
    /\ call.op = "apply_constraints"
    /\ ret' \in apply_constraints(call.data, call.constraints, ColumnValues \ {None})
    /\ pc' = "done"
    /\ UNCHANGED <<call, self>>

CreateDuplicates ==
    /\ pc = "call"
    /\ call.op = "create_duplicates"
    /\ ret' \in create_duplicates(call.data, call.duplicate_percentage)
    /\ pc' = "done"
    /\ UNCHANGED <<call, self>>

IntroduceOutliers ==
    /\ pc = "call"
    /\ call.op = "introduce_outliers"
    /\ ret' \in introduce_outliers(call.data, call.outlier_percentage)
    /\ pc' = "done"
    /\ UNCHANGED <<call, self>>

GenerateNumeric ==
    /\ pc = "call"
    /\ call.op = "generate_numeric"
    /\ ret' \in generate_numeric(call.count, call.subtype, call.kwargs)
    /\ pc' = "done"
    /\ UNCHANGED <<call, self>>

GenerateText ==
    /\ pc = "call"
    /\ call.op = "generate_text"
    /\ ret' \in generate_text(call.count, call.subtype, call.kwargs, call.faker_raises)
    /\ pc' = "done"
    /\ UNCHANGED <<call, self>>

GenerateDate ==
    /\ pc = "call"
    /\ call.op = "generate_date"
    /\ ret' \in generate_date_values(call.count, call.subtype, call.kwargs)
    /\ pc' = "done"
    /\ UNCHANGED <<call, self>>

GenerateData ==
    /\ pc = "call"
    /\ call.op = "generate_data"
    /\ ret' \in generate_data(call.current_schema, call.generated_data, call.num_rows,
                              call.privacy_level, call.missing_percentage,
                              call.outlier_percentage, call.duplicate_percentage,
                              call.faker_raises)
    /\ pc' = "done"
    /\ UNCHANGED <<call, self>>

NextGen ==
    \/ ApplyConstraints
    \/ CreateDuplicates
    \/ IntroduceOutliers
    \/ GenerateNumeric
    \/ GenerateText
    \/ GenerateDate

SpecGen == InitGen /\ [][NextGen]_vars

\* the family calls a generation run makes ask for one value
FamilyCallsOfRuns == { c \in NumericCalls \cup TextCalls \cup DateCalls : c.count = 1 }

InitRun ==
    /\ pc = "call"
    /\ call \in FamilyCallsOfRuns \cup RunCalls
    /\ ret = NoRet
    /\ self = NoObject

NextRun ==
    \/ GenerateNumeric
    \/ GenerateText
    \/ GenerateDate
    \/ GenerateData

SpecRun == InitRun /\ [][NextRun]_vars

\* The same run under each value of outlier_percentage: the runs are given the
\* same seed, so they are compared by the outcomes they can have
OutlierPercentages == {0, 50}
SweepCalls ==
    { [op |-> "sweep_outlier_percentage", current_schema |-> c.current_schema,
       generated_data |-> c.generated_data, num_rows |-> c.num_rows,
       privacy_level |-> c.privacy_level, missing_percentage |-> c.missing_percentage,
       duplicate_percentage |-> c.duplicate_percentage, faker_raises |-> c.faker_raises]
      : c \in RunCalls }

InitSweep ==
    /\ pc = "call"
    /\ call \in SweepCalls
    /\ ret = NoRet
    /\ self = NoObject

SweepOutlierPercentage ==
    /\ pc = "call"
    /\ call.op = "sweep_outlier_percentage"
    /\ ret' = [raised |-> FALSE,
               outcomes |-> [o \in OutlierPercentages |->
                   generate_data(call.current_schema, call.generated_data, call.num_rows,
                                 call.privacy_level, call.missing_percentage, o,
                                 call.duplicate_percentage, call.faker_raises)]]
    /\ pc' = "done"
    /\ UNCHANGED <<call, self>>

NextSweep == SweepOutlierPercentage

SpecSweep == InitSweep /\ [][NextSweep]_vars

-----------------------------------------------------------------------------
(* The calls of the privacy specification *)

Alphabet == {"a", "b", "@"}
\* every string over the alphabet of at most MaxStrLen characters
AlphabetStrings == { StrV(w) : w \in SeqsUpTo(Alphabet, MaxStrLen) }
\* strings with the shapes the masking and generalization rules look at
ShapedStrings ==
    { StrV(<<"J", "o", " ", "D">>), StrV(<<"5", "5", "5", "-", "1", "2", "3", "4">>),
      StrV(<<"(", "5", "5", ")", "1", "2", "3", "4", "5">>), StrV(<<"1", "2">>),
      StrV(<<"1", " ", "E", "l", "m", " ", "S", "t">>), StrV(<<"9", "0", "2", "1", "0">>) }
NumberItems == {IntV(17), IntV(40), FltV(1234), FltV(-20005)}
DateItems == {DateTimeV(3 * DaySeconds + 7), NowV(9 * DaySeconds + 5), DateV(4), IsoDate(5)}

\* the items of one-item columns, and the few items of longer columns
WideItems == AlphabetStrings \cup ShapedStrings \cup NumberItems \cup DateItems \cup {None}
NarrowItems == {None, StrV(<<"a", "b", "@", "a">>), StrV(<<"b", "@", "a">>), IntV(17)}
NumberColumnItems == {None, IntV(17), FltV(1234)}

\* a str, an int or a float: what str(item) is modelled for
HasStr(v) == IsStr(v) \/ IsNumber(v)

AnonFieldTypes == PiiTypes \cup {"date", "datetime", "integer", "float", "city",
                                "zip_code", "age", "text"}
AnonLevels == {"low", "medium", "high", "maximum"}

AnonymizeCalls ==
    { c \in { [op |-> "anonymize_data", data |-> d, field_type |-> t, level |-> l]
              : d \in { <<x>> : x \in WideItems } \cup SeqsUpTo(NarrowItems, MaxCol),
                t \in AnonFieldTypes, l \in AnonLevels }
      : c.field_type \in PiiTypes \cup {"zip_code", "age"}
        => \A i \in DOMAIN c.data : IsNone(c.data[i]) \/ HasStr(c.data[i]) }

Epsilons == {-1000, 0, 500, 1000}
Sensitivities == {500, 1000}
NoiseCalls ==
    { [op |-> o, epsilon |-> e, data |-> d, sensitivity |-> sv]
      : o \in {"add_laplace_noise", "add_gaussian_noise"}, e \in Epsilons,
        d \in SeqsUpTo(NumberColumnItems, MaxCol), sv \in Sensitivities }

QiValues == {StrV(<<"a">>), EmptyString}
Records == { [zip |-> z, age |-> a] : z, a \in QiValues }
QiNames == {"zip", "age", "ssn"}
KAnonymityCalls ==
    { [op |-> "check_k_anonymity", data |-> d, quasi_identifiers |-> q, k |-> k]
      : d \in SeqsUpTo(Records, MaxCol), q \in SeqsUpTo(QiNames, 2), k \in 0..3 }

\* values handed to detect_pii: falsy ones, and strings and numbers written to
\* match, or to just miss, one of the patterns
PiiItems ==
    { None, IntV(0), StrV(<<>>), IntV(1111111111),
      StrV(<<"1", "1", "1", "-", "1", "1", "-", "1", "1", "1", "1">>),
      StrV(<<"a", "1", "1", "1", "-", "1", "1", "-", "1", "1", "1", "1">>),
      StrV(<<"1", "1", "1", ".", "1", "1", "1", ".", "1", "1", "1", "1">>),
      StrV(<<"1", "1", "1", "1", "1", "1", "1", "1", "1", "1", "1", "1", "1", "1", "1", "1">>),
      StrV(<<"1", ".", "1", ".", "1", ".", "1">>),
      StrV(<<"a", "@", "a", ".", "a", "a">>),
      StrV(<<"a", "@", "a", ".", "a">>) }
DetectPiiCalls ==
    { [op |-> "detect_pii", data |-> d, field_name |-> "f"] : d \in SeqsUpTo(PiiItems, 2) }

InitPriv ==
    /\ pc = "call"
    /\ call \in AnonymizeCalls \cup NoiseCalls \cup KAnonymityCalls \cup DetectPiiCalls
    /\ ret = NoRet
    /\ self = NoObject

AnonymizeData ==
    /\ pc = "call"
    /\ call.op = "anonymize_data"
    /\ \E out \in anonymize_data(call.data, call.field_type, call.level) :
          ret' = [raised |-> FALSE, data |-> out]
    /\ pc' = "done"
    /\ UNCHANGED <<call, self>>

AddLaplaceNoise ==
    /\ pc = "call"
    /\ call.op = "add_laplace_noise"
    /\ ret' \in add_laplace_noise(call.epsilon, call.data, call.sensitivity)
    /\ pc' = "done"
    /\ UNCHANGED <<call, self>>

AddGaussianNoise ==
    /\ pc = "call"
    /\ call.op = "add_gaussian_noise"
    /\ ret' \in add_gaussian_noise(call.epsilon, call.data, call.sensitivity)
    /\ pc' = "done"
    /\ UNCHANGED <<call, self>>

CheckKAnonymity ==
    /\ pc = "call"
    /\ call.op = "check_k_anonymity"
    /\ ret' = [raised |-> FALSE,
               result |-> check_k_anonymity(call.data, call.quasi_identifiers, call.k)]
    /\ pc' = "done"
    /\ UNCHANGED <<call, self>>

DetectPii ==
    /\ pc = "call"
    /\ call.op = "detect_pii"
    /\ ret' = [raised |-> FALSE, result |-> detect_pii(call.data, call.field_name)]
    /\ pc' = "done"
    /\ UNCHANGED <<call, self>>

NextPriv ==
    \/ AnonymizeData
    \/ AddLaplaceNoise
    \/ AddGaussianNoise
    \/ CheckKAnonymity
    \/ DetectPii

SpecPriv == InitPriv /\ [][NextPriv]_vars

-----------------------------------------------------------------------------
(* The calls of the validation specification *)

ValidatorNames ==
    { StrV(<<"a">>), StrV(<<"b">>), StrV(<<>>), StrV(<<" ">>), StrV(<<"1", "a">>),
      StrV(<<"a", "\n">>), IntV(1) }
ValidatorTypes == {"integer", "date", "categorical", "text", "uuid"}
ConstraintValues ==
    { None, Dict(EmptyMap),
      Dict([min_val |-> IntV(0), max_val |-> IntV(1)]),
      Dict([min_val |-> IntV(1), max_val |-> IntV(0)]),
      Dict([min_val |-> StrV(<<"a">>), max_val |-> IntV(1)]),
      Dict([start_date |-> IsoDate(5), end_date |-> IsoDate(4)]),
      Dict([start_date |-> BadDate]),
      Dict([start_date |-> IntV(5)]),
      Dict([categories |-> ListV(<<>>)]),
      Dict([categories |-> ListV(<<StrV(<<"a">>)>>)]),
      Dict([null_percentage |-> IntV(50)]),
      Dict([null_percentage |-> IntV(150)]),
      Dict([null_percentage |-> StrV(<<"5">>)]) }

\* elements of a fields list: mappings with any of the keys name, type and
\* constraints, and values that are no mapping
FieldDicts ==
    { Dict(Merge(Merge(n, t), c))
      : n \in {EmptyMap} \cup { [name |-> x] : x \in ValidatorNames },
        t \in {EmptyMap} \cup { [type |-> x] : x \in ValidatorTypes },
        c \in {EmptyMap} \cup { [constraints |-> x] : x \in ConstraintValues } }
NonMappings == {None, IntV(5), StrV(<<"a">>), ListV(<<>>)}
NarrowFields ==
    { Dict([name |-> StrV(<<"a">>), type |-> "text"]),
      Dict([name |-> StrV(<<"a">>), type |-> "integer"]),
      Dict([name |-> StrV(<<"b">>), type |-> "text"]),
      Dict([name |-> StrV(<<"b">>), type |-> "uuid"]),
      IntV(5) }

ValidatorSchemas ==
    { Dict(Merge(n, f))
      : n \in {EmptyMap, [name |-> StrV(<<"s">>)]},
        f \in {EmptyMap}
              \cup { [fields |-> x] : x \in {None, StrV(<<"a">>)} }
              \cup { [fields |-> ListV(<<x>>)] : x \in FieldDicts \cup NonMappings }
              \cup { [fields |-> ListV(x)] : x \in SeqsUpTo(NarrowFields, MaxFields) } }

InitValid ==
    /\ pc = "call"
    /\ call \in { [op |-> "validate_schema", schema |-> s] : s \in ValidatorSchemas }
    /\ ret = NoRet
    /\ self = NoObject

ValidateSchema ==
    /\ pc = "call"
    /\ call.op = "validate_schema"
    /\ ret' = validate_schema(call.schema)
    /\ pc' = "done"
    /\ UNCHANGED <<call, self>>

NextValid == ValidateSchema

SpecValid == InitValid /\ [][NextValid]_vars

-----------------------------------------------------------------------------
(* Sequences of calls on one DifferentialPrivacy engine.  self is the engine *)
(* (its epsilon, in thousandths); call is the latest call, with its ordinal  *)
(* in the sequence and the epsilon the engine was constructed with.          *)

\* columns of numbers, with and without None, and columns holding a string
DpNumberColumns ==
    { <<>>, <<None>>, <<IntV(3)>>, <<IntV(1), None, IntV(3)>>, <<FltV(2500), IntV(1)>> }
DpColumns ==
    DpNumberColumns \cup { <<StrV(<<"a">>), IntV(1), StrV(<<"a">>)>>, <<IntV(1), StrV(<<"a">>)>> }
DpBins == {0, 1, 2}
DpRecordLists == SeqsUpTo(Records, 2)

\* DifferentialPrivacy(epsilon): the constructor stores its argument
DpConstruct(epsilon) == [epsilon |-> epsilon]

InitDp ==
    \E epsilon \in Epsilons :
        /\ pc = "done"
        /\ call = [op |-> "__init__", seq |-> 0, constructed |-> epsilon]
        /\ ret = NoRet
        /\ self = DpConstruct(epsilon)

\* the next call of the sequence, with its arguments
DpCall(op, args) ==
    Merge([op |-> op, seq |-> call.seq + 1, constructed |-> call.constructed], args)

DpAddLaplaceNoise ==
    /\ call.seq < MaxOps
    /\ \E data \in DpNumberColumns, sensitivity \in Sensitivities :
          /\ call' = DpCall("add_laplace_noise", [data |-> data, sensitivity |-> sensitivity])
          /\ ret' \in add_laplace_noise(self.epsilon, data, sensitivity)
    /\ UNCHANGED <<pc, self>>

DpAddGaussianNoise ==
    /\ call.seq < MaxOps
    /\ \E data \in DpNumberColumns, sensitivity \in Sensitivities :
          /\ call' = DpCall("add_gaussian_noise", [data |-> data, sensitivity |-> sensitivity])
          /\ ret' \in add_gaussian_noise(self.epsilon, data, sensitivity)
    /\ UNCHANGED <<pc, self>>

DpHistogram ==
    /\ call.seq < MaxOps
    /\ \E data \in DpColumns, bins \in DpBins :
          /\ call' = DpCall("apply_private_histogram", [data |-> data, bins |-> bins])
          /\ ret' \in apply_private_histogram(self.epsilon, data, bins)
    /\ UNCHANGED <<pc, self>>

DpPrivateMean ==
    /\ call.seq < MaxOps
    /\ \E data \in DpNumberColumns, sensitivity \in Sensitivities :
          /\ call' = DpCall("private_mean", [data |-> data, sensitivity |-> sensitivity])
          /\ ret' \in private_mean(self.epsilon, data, sensitivity)
    /\ UNCHANGED <<pc, self>>

DpPrivateMedian ==
    /\ call.seq < MaxOps
    /\ \E data \in DpNumberColumns, sensitivity \in Sensitivities :
          /\ call' = DpCall("private_median", [data |-> data, sensitivity |-> sensitivity])
          /\ ret' \in private_median(self.epsilon, data, sensitivity)
    /\ UNCHANGED <<pc, self>>

DpPrivateStd ==
    /\ call.seq < MaxOps
    /\ \E data \in DpNumberColumns, sensitivity \in Sensitivities :
          /\ call' = DpCall("private_std", [data |-> data, sensitivity |-> sensitivity])
          /\ ret' \in private_std(self.epsilon, data, sensitivity)
    /\ UNCHANGED <<pc, self>>

DpAggregation ==
    /\ call.seq < MaxOps
    /\ \E data \in DpColumns :
          /\ call' = DpCall("apply_private_aggregation", [data |-> data])
          /\ ret' \in apply_private_aggregation(self.epsilon, data)
    /\ UNCHANGED <<pc, self>>

DpCheckKAnonymity ==
    /\ call.seq < MaxOps
    /\ \E data \in DpRecordLists, k \in {1, 2} :
          /\ call' = DpCall("check_k_anonymity",
                            [data |-> data, quasi_identifiers |-> <<"zip">>, k |-> k])
          /\ ret' = [raised |-> FALSE, result |-> check_k_anonymity(data, <<"zip">>, k)]
    /\ UNCHANGED <<pc, self>>

NextDp ==
    \/ DpAddLaplaceNoise
    \/ DpAddGaussianNoise
    \/ DpHistogram
    \/ DpPrivateMean
    \/ DpPrivateMedian
    \/ DpPrivateStd
    \/ DpAggregation
    \/ DpCheckKAnonymity

SpecDp == InitDp /\ [][NextDp]_vars

-----------------------------------------------------------------------------
(* Sequences of calls on one SyntheticDataApp (app.py).  self is the app: its *)
(* templates, the schema the schema builder made, the schema that is current  *)
(* (a reference to one of these, so that a change made through it is seen     *)
(* through the other names of the object) and the stored dataset.             *)

\* SchemaTemplates.get_all_templates(), two of the templates, cut down to a field
Templates ==
    [customer_database |-> [fields |-> <<Field("email", "text", "email")>>],
     employee_records |-> [fields |-> <<FieldWith("age", "integer", "age", AgeBounds)>>]]

\* SyntheticDataApp.__init__
AppConstruct ==
    [templates |-> Templates, custom |-> NoSchema, current_schema |-> "None",
     generated_data |-> None]

\* the object self.current_schema refers to
CurrentSchema(app) ==
    IF app.current_schema = "None" THEN NoSchema
    ELSE IF app.current_schema = "custom" THEN app.custom
    ELSE app.templates[app.current_schema]

\* load_template: the app afterwards and the message returned
load_template(app, template_name) ==
    IF template_name = "" \/ template_name \notin DOMAIN app.templates
    THEN [app |-> app, ret |-> [status |-> "not_found"]]
    ELSE [app |-> [app EXCEPT !.current_schema = template_name],
          ret |-> [status |-> "loaded"]]

\* s.strip()
RECURSIVE Strip(_)
Strip(s) ==
    IF s # <<>> /\ Head(s) \in Whitespace THEN Strip(Tail(s))
    ELSE IF s # <<>> /\ s[Len(s)] \in Whitespace THEN Strip(SubSeq(s, 1, Len(s) - 1))
    ELSE s

\* add_field_to_schema: the field is appended to the current schema, which is
\* made first when there is none
add_field_to_schema(app, name, field_type, subtype, min_val, max_val, null_percentage, unique, categories, pattern) ==
    IF name = "" THEN [app |-> app, ret |-> [status |-> "no_name"]]
    ELSE LET made == IF app.current_schema = "None"
                     THEN [app EXCEPT !.custom = [fields |-> <<>>],
                                      !.current_schema = "custom"]
                     ELSE app
             pieces == SplitOn(categories, ",")
             constraints ==
                Merge(IF NotNone(min_val) THEN [min_val |-> min_val] ELSE EmptyMap,
                Merge(IF NotNone(max_val) THEN [max_val |-> max_val] ELSE EmptyMap,
                Merge(IF null_percentage > 0 THEN [null_percentage |-> null_percentage]
                      ELSE EmptyMap,
                Merge(IF unique THEN [unique |-> TRUE] ELSE EmptyMap,
                Merge(IF categories # <<>> /\ field_type = "categorical"
                      THEN [categories |-> [k \in DOMAIN pieces |-> StrV(Strip(pieces[k]))]]
                      ELSE EmptyMap,
                      IF pattern # <<>> /\ field_type = "text" THEN [pattern |-> StrV(pattern)]
                      ELSE EmptyMap)))))
             field == FieldWith(name, field_type, subtype, constraints)
             appended == [fields |-> Append(CurrentSchema(made).fields, field)]
             after == IF made.current_schema = "custom"
                      THEN [made EXCEPT !.custom = appended]
                      ELSE [made EXCEPT !.templates[made.current_schema] = appended]
         IN  [app |-> after, ret |-> [status |-> "added", schema |-> appended]]

ExportFormats == {"csv", "json", "excel", "parquet", "sql", "pandas"}

\* an export_data without the test for stored data
export_data_without_test(app, export_format, compress) ==
    IF export_format \in ExportFormats
    THEN [status |-> "ready",
          exported |-> IF app.generated_data = None THEN <<>> ELSE app.generated_data.rows,
          zipped |-> compress /\ export_format \in {"csv", "json", "sql", "pandas"}]
    ELSE [status |-> "unsupported"]

\* export_data: refused while nothing is stored (None or an empty list);
\* otherwise the stored rows are what the exporter is given
export_data(app, export_format, compress) ==
    IF app.generated_data = None \/ app.generated_data.rows = <<>>
    THEN [status |-> "no_data"]
    ELSE IF export_format \in ExportFormats
    THEN [status |-> "ready", exported |-> app.generated_data.rows,
          zipped |-> compress /\ export_format \in {"csv", "json", "sql", "pandas"}]
    ELSE [status |-> "unsupported"]

InitApp ==
    /\ pc = "done"
    /\ call = [op |-> "__init__", seq |-> 0]
    /\ ret = NoRet
    /\ self = AppConstruct

\* the next call of the sequence, with its arguments
AppCall(op, args) == Merge([op |-> op, seq |-> call.seq + 1], args)

LoadTemplate ==
    /\ call.seq < MaxAppOps
    /\ \E template_name \in {"customer_database", "employee_records", "", "orders"} :
          LET after == load_template(self, template_name)
          IN  /\ call' = AppCall("load_template", [template_name |-> template_name])
              /\ self' = after.app
              /\ ret' = after.ret
    /\ UNCHANGED pc

\* the fields the schema builder is asked to add: a name left empty, an integer
\* field with bounds, and a text field whose subtype is in no table
AddFieldToSchema ==
    /\ call.seq < MaxAppOps
    /\ CurrentSchema(self) # NoSchema => Len(CurrentSchema(self).fields) < MaxFields
    /\ \E args \in { [name |-> "", field_type |-> "integer", subtype |-> "age",
                      min_val |-> None, max_val |-> None, null_percentage |-> 0,
                      unique |-> FALSE, categories |-> <<>>, pattern |-> <<>>],
                     [name |-> "n", field_type |-> "integer", subtype |-> "age",
                      min_val |-> IntV(18), max_val |-> IntV(19), null_percentage |-> 0,
                      unique |-> FALSE, categories |-> <<>>, pattern |-> <<>>],
                     [name |-> "c", field_type |-> "categorical", subtype |-> "custom",
                      min_val |-> None, max_val |-> None, null_percentage |-> 50,
                      unique |-> TRUE, categories |-> <<"a", ",", " ", "b">>,
                      pattern |-> <<>>],
                     [name |-> "t", field_type |-> "text", subtype |-> UnknownSubtype,
                      min_val |-> None, max_val |-> None, null_percentage |-> 0,
                      unique |-> FALSE, categories |-> <<>>, pattern |-> <<"a">>] } :
          LET after == add_field_to_schema(self, args.name, args.field_type, args.subtype,
                                           args.min_val, args.max_val, args.null_percentage,
                                           args.unique, args.categories, args.pattern)
          IN  /\ call' = AppCall("add_field_to_schema", args)
              /\ self' = after.app
              /\ ret' = after.ret
    /\ UNCHANGED pc

\* generate_data on the app: the arguments include a missing_percentage above
\* 100, with which the missing-values step raises
GenerateDataOnApp ==
    /\ call.seq < MaxAppOps
    /\ \E num_rows \in {0, 1}, privacy_level \in {"low", "high"},
          missing_percentage \in {0, 200} :
          /\ call' = AppCall("generate_data",
                             [num_rows |-> num_rows, privacy_level |-> privacy_level,
                              missing_percentage |-> missing_percentage,
                              outlier_percentage |-> 0, duplicate_percentage |-> 0])
          /\ \E outcome \in generate_data(CurrentSchema(self), self.generated_data, num_rows,
                                          privacy_level, missing_percentage, 0, 0, FALSE) :
                /\ self' = [self EXCEPT !.generated_data = outcome.generated_data]
                /\ ret' = [status |-> outcome.status, data |-> outcome.data,
                           records |-> outcome.records]
    /\ UNCHANGED pc

ExportData ==
    /\ call.seq < MaxAppOps
    /\ \E export_format \in {"csv", "xml"}, compress \in BOOLEAN :
          /\ call' = AppCall("export_data", [export_format |-> export_format,
                                             compress |-> compress])
          /\ ret' = export_data(self, export_format, compress)
    /\ UNCHANGED <<pc, self>>

NextApp ==
    \/ LoadTemplate
    \/ AddFieldToSchema
    \/ GenerateDataOnApp
    \/ ExportData

SpecApp == InitApp /\ [][NextApp]_vars

-----------------------------------------------------------------------------
(* Two runs of one call under the same seed.  random.seed(seed), np.random.seed *)
(* and Faker.seed make the k-th draw of a run a function of the seed and of k;  *)
(* the wall clock and the hash seed that orders a set belong to each run.       *)

\* runs whose generators are left unseeded draw from streams of their own
RunSeedUnseeded(seed, run) == seed + run
\* the seed a run's generators are built with: both runs are given the same
RunSeed(seed, run) == seed

\* the k-th draw of the stream that a seed starts
Draw(seed, k) == ((seed + 1) * (k + 2) * (k + seed + 3)) % 7

\* the element of a non-empty set that draw u selects
RECURSIVE Nth(_, _)
Nth(S, n) ==
    LET x == CHOOSE y \in S : TRUE
    IN  IF n = 0 THEN x ELSE Nth(S \ {x}, n - 1)
Pick(S, u) == Nth(S, u % Cardinality(S))

\* list(set(data)) orders numbers by their value's hash, which every process
\* computes alike; str, date and None hashes follow the process
HashStable(data) == \A i \in DOMAIN data : IsNumber(data[i])

\* generate of one family in one run: the loop, apply_constraints and, for the
\* numeric family, introduce_outliers, with every random choice taken from the
\* run's stream, the date fallback from the run's clock and the order of
\* list(set(data)) from the run's hash seed
GenerateInRun(count, known, outcomes, fallbacks, clock_fallback, kwargs, with_outliers, seed, clock, order) ==
    IF ~known THEN [error |-> "ValueError", data |-> <<>>, failed |-> {}]
    ELSE LET drawn == [i \in 1..count |-> Pick(outcomes, Draw(seed, i))]
             data == [i \in 1..count |->
                        IF drawn[i].ok THEN drawn[i].v
                        ELSE IF clock_fallback THEN NowV(clock)
                        ELSE Pick(fallbacks, Draw(seed, count + i))]
             failed == {i \in 1..count : ~drawn[i].ok}
             constrained == apply_constraints(data, kwargs, {})
             nulled == Pick({c.nulled : c \in constrained}, Draw(seed, 2 * count + 1))
             ordered == {c \in constrained : c.nulled = nulled}
             c == Pick(ordered, IF HashStable(SetNone(data, nulled)) THEN 0 ELSE order)
         IN  IF c.raised THEN [error |-> "ValueError", data |-> <<>>, failed |-> failed]
             ELSE IF with_outliers /\ Has(kwargs, "outlier_percentage")
             THEN LET o == Pick(introduce_outliers(c.data, kwargs.outlier_percentage),
                                Draw(seed, 2 * count + 2))
                  IN  IF o.raised THEN [error |-> "ValueError", data |-> <<>>, failed |-> failed]
                      ELSE [error |-> "none", data |-> o.data, failed |-> failed]
             ELSE [error |-> "none", data |-> c.data, failed |-> failed]

\* one run of the call: a generate of a family, anonymize_data or a noise routine
CallInRun(c, seed, clock, order) ==
    CASE c.op = "generate_numeric" ->
            GenerateInRun(c.count, c.subtype \in numeric_types,
                          NumericFunc(c.subtype, c.kwargs), NumericFallback, FALSE,
                          c.kwargs, TRUE, seed, clock, order)
      [] c.op = "generate_text" ->
            GenerateInRun(c.count, c.subtype \in text_types,
                          TextFunc(c.subtype, c.kwargs, c.faker_raises), TextFallback, FALSE,
                          c.kwargs, FALSE, seed, clock, order)
      [] c.op = "generate_date" ->
            GenerateInRun(c.count, c.subtype \in date_types,
                          DateFunc(c.subtype, c.kwargs), DateFallback, TRUE,
                          c.kwargs, FALSE, seed, clock, order)
      [] c.op = "anonymize_data" ->
            [error |-> "none", failed |-> {},
             data |-> Pick(anonymize_data(c.data, c.field_type, c.level), Draw(seed, 1))]
      [] c.op = "add_laplace_noise" ->
            [error |-> "none", failed |-> {},
             data |-> Pick(add_laplace_noise(c.epsilon, c.data, c.sensitivity),
                           Draw(seed, 1)).data]
      [] c.op = "add_gaussian_noise" ->
            [error |-> "none", failed |-> {},
             data |-> Pick(add_gaussian_noise(c.epsilon, c.data, c.sensitivity),
                           Draw(seed, 1)).data]

\* the calls run twice: batches of the largest count, and privacy calls on
\* columns of two items
TwiceGenerateCalls ==
    { c \in NumericCalls \cup TextCalls \cup DateCalls : c.count = MaxCount }
TwicePrivacyCalls ==
    { c \in AnonymizeCalls : Len(c.data) = 2 /\ c.level \in {"medium", "high"} }
    \cup { c \in NoiseCalls : Len(c.data) = 2 }

Seeds == 0..MaxSeed
\* the second run's hash seed orders a set as the first run's does, or otherwise
HashOrders == {0, 1}
FirstClock == CHOOSE t \in ClockReadings : \A u \in ClockReadings : t <= u

\* the privacy routines read neither the clock nor the order of a set
InitTwice ==
    /\ pc = "call"
    /\ \/ \E c \in TwiceGenerateCalls, seed \in Seeds, clock2 \in ClockReadings,
             order2 \in HashOrders :
             call = [op |-> "twice", of |-> c, seed |-> seed,
                     clocks |-> <<FirstClock, clock2>>, orders |-> <<0, order2>>]
       \/ \E c \in TwicePrivacyCalls, seed \in Seeds :
             call = [op |-> "twice", of |-> c, seed |-> seed,
                     clocks |-> <<FirstClock, FirstClock>>, orders |-> <<0, 0>>]
    /\ ret = NoRet
    /\ self = NoObject

\* both runs, each from its construction with the seed to its return
RunTwice ==
    /\ pc = "call"
    /\ call.op = "twice"
    /\ ret' = [raised |-> FALSE,
               runs |-> [r \in 1..2 |->
                           CallInRun(call.of, RunSeed(call.seed, r), call.clocks[r],
                                     call.orders[r])]]
    /\ pc' = "done"
    /\ UNCHANGED <<call, self>>

NextTwice == RunTwice

SpecTwice == InitTwice /\ [][NextTwice]_vars

-----------------------------------------------------------------------------
(* DateGenerator._generate_signup_date, step by step.  self is the frame of    *)
(* the call: base_date, whether the weekday branch was taken, and, for the     *)
(* record, the date that was sampled and the number of turns of the loop.      *)

SignupDays == 0..13
SignupCalls ==
    { [op |-> "signup_date", start_date |-> a, end_date |-> b]
      : a, b \in {IsoDate(d) : d \in SignupDays} \cup {BadDate} }

InitSignup ==
    /\ pc = "call"
    /\ call \in SignupCalls
    /\ ret = NoRet
    /\ self = NoObject

\* a loop that moves a Sunday on and lets a Saturday stand
IsSunday(base_date) == Weekday(base_date.dt) >= 6

\* base_date.weekday() >= 5
IsWeekend(base_date) == Weekday(base_date.dt) >= 5

\* random.random() < 0.7 and the _generate_datetime of the branch taken; the
\* weekday branch goes on to the loop, the other returns the date
SignupSample ==
    /\ pc = "call"
    /\ call.op = "signup_date"
    /\ \E weekday_branch \in BOOLEAN, b \in generate_datetime(call.start_date, call.end_date) :
          IF ~b.ok
          THEN /\ pc' = "done"
               /\ ret' = [raised |-> TRUE]
               /\ self' = self
          ELSE /\ self' = [base_date |-> b.v, weekday_branch |-> weekday_branch,
                           sampled |-> b.v, turns |-> 0]
               /\ IF weekday_branch
                  THEN pc' = "loop" /\ ret' = ret
                  ELSE pc' = "done" /\ ret' = [raised |-> FALSE, value |-> b.v]
    /\ UNCHANGED call

\* one turn of the loop: base_date += timedelta(days=1)
SignupAdvance ==
    /\ pc = "loop"
    /\ IsWeekend(self.base_date)
    /\ self' = [self EXCEPT !.base_date = ShiftDays(@, 1), !.turns = @ + 1]
    /\ UNCHANGED <<pc, call, ret>>

\* the loop's test fails: return base_date
SignupReturn ==
    /\ pc = "loop"
    /\ ~IsWeekend(self.base_date)
    /\ pc' = "done"
    /\ ret' = [raised |-> FALSE, value |-> self.base_date]
    /\ UNCHANGED <<call, self>>

NextSignup ==
    \/ SignupSample
    \/ SignupAdvance
    \/ SignupReturn

\* a call that has started runs on: nothing suspends it
SpecSignup == InitSignup /\ [][NextSignup]_vars /\ WF_vars(NextSignup)

-----------------------------------------------------------------------------
(* Sequences of constructions and draws in one process.  The process has    *)
(* three random sources: the random module, numpy.random and the generator   *)
(* that every Faker instance shares.  A stream is the seed a source was last *)
(* given and the number of draws taken from it since; self holds the three   *)
(* streams, the classes that have an instance, the epsilon of the engine and *)
(* the calls made so far.                                                    *)

Sources == {"random", "np", "faker"}
GeneratorClasses == {"NumericGenerator", "TextGenerator", "DateGenerator"}
Classes == GeneratorClasses \cup {"DataAnonymizer", "DifferentialPrivacy"}

\* the seed of a source that no call has seeded: the entropy of the process
Entropy == [entropy |-> TRUE]
SeedNumber(seed) == IF seed = Entropy THEN 3 ELSE seed.int
\* the next draw of a stream
DrawOf(stream) == Draw(SeedNumber(stream.seed), stream.pos)
Advance(stream, n) == [stream EXCEPT !.pos = @ + n]

\* the sources the methods of a class draw from
DrawsFrom(class) ==
    CASE class = "NumericGenerator"    -> {"random", "np"}
      [] class = "TextGenerator"       -> {"random", "faker"}
      [] class = "DateGenerator"       -> {"random"}
      [] class = "DataAnonymizer"      -> {"random"}
      [] class = "DifferentialPrivacy" -> {"np"}

\* a constructor that seeds every source, whatever the class
SeededByAnyClass(class) == Sources

\* the sources __init__ of a class seeds when its seed is not None
SeededBy(class) ==
    CASE class \in GeneratorClasses      -> {"random", "np", "faker"}
      [] class = "DataAnonymizer"        -> {"random"}
      [] class = "DifferentialPrivacy"   -> {"random", "np"}

\* __init__(seed) of a class: the streams afterwards
Reseed(streams, class, seed) ==
    IF IsNone(seed) THEN streams
    ELSE [source \in Sources |->
            IF source \in SeededBy(class) THEN [seed |-> seed, pos |-> 0]
            ELSE streams[source]]

\* the noise np.random.laplace(0, scale) returns at a draw of the stream
LaplaceAt(scale, u) == Pick(Laplace(scale), u).v

NonNullBefore(data, i) == Cardinality({j \in 1..(i - 1) : NotNone(data[j])})

\* a noise loop that takes its draw before it looks at the value
add_laplace_noise_drawing_for_nulls(epsilon, data, sensitivity, stream) ==
    IF epsilon <= 0 THEN [data |-> data, stream |-> stream]
    ELSE LET scale == (sensitivity * 1000) \div epsilon
         IN  [data |-> [i \in DOMAIN data |->
                          IF IsNone(data[i]) THEN None
                          ELSE Noisy(data[i], LaplaceAt(scale, DrawOf(Advance(stream, i - 1))))],
              stream |-> Advance(stream, Len(data))]

\* add_laplace_noise on the numpy stream: the column returned and the stream
\* afterwards
add_laplace_noise_on_stream(epsilon, data, sensitivity, stream) ==
    IF epsilon <= 0 THEN [data |-> data, stream |-> stream]
    ELSE LET scale == (sensitivity * 1000) \div epsilon
         IN  [data |-> [i \in DOMAIN data |->
                          IF IsNone(data[i]) THEN None
                          ELSE Noisy(data[i],
                                     LaplaceAt(scale,
                                               DrawOf(Advance(stream,
                                                              NonNullBefore(data, i)))))],
              stream |-> Advance(stream, Cardinality({i \in DOMAIN data : NotNone(data[i])}))]

ProcessStart ==
    [streams |-> [source \in Sources |-> [seed |-> Entropy, pos |-> 0]],
     instances |-> {}, epsilon |-> 0, history |-> <<>>]

InitProc ==
    /\ pc = "done"
    /\ call = [op |-> "start", seq |-> 0]
    /\ ret = NoRet
    /\ self = ProcessStart

\* the next call of the sequence, entered in the history of the process
ProcCall(op, args) == Merge([op |-> op, seq |-> call.seq + 1], args)

ProcSeeds == {None, IntV(0), IntV(1)}

Construct ==
    /\ call.seq < MaxProcOps
    /\ \E class \in Classes, seed \in ProcSeeds :
          LET c == ProcCall("__init__", [class |-> class, seed |-> seed])
          IN  /\ call' = c
              /\ self' = [self EXCEPT !.streams = Reseed(self.streams, class, seed),
                                      !.instances = @ \cup {class},
                                      !.epsilon = IF class = "DifferentialPrivacy"
                                                  THEN 500 ELSE @,
                                      !.history = Append(@, c)]
              /\ ret' = NoRet
    /\ UNCHANGED pc

\* a method of an instance takes one draw from a source of its class
DrawOne ==
    /\ call.seq < MaxProcOps
    /\ \E class \in self.instances :
          \E source \in DrawsFrom(class) :
             LET c == ProcCall("draw", [class |-> class, source |-> source])
             IN  /\ call' = c
                 /\ ret' = [raised |-> FALSE, stream |-> self.streams[source],
                            value |-> DrawOf(self.streams[source])]
                 /\ self' = [self EXCEPT !.streams[source] = Advance(@, 1),
                                         !.history = Append(@, c)]
    /\ UNCHANGED pc

ProcColumns ==
    { <<>>, <<IntV(17)>>, <<None, IntV(17), FltV(1234)>>, <<FltV(1234), None, IntV(40)>> }

AddLaplaceNoiseOnStream ==
    /\ call.seq < MaxProcOps
    /\ "DifferentialPrivacy" \in self.instances
    /\ \E data \in ProcColumns, sensitivity \in Sensitivities :
          LET c == ProcCall("add_laplace_noise", [data |-> data, sensitivity |-> sensitivity])
              after == add_laplace_noise_on_stream(self.epsilon, data, sensitivity,
                                                   self.streams.np)
          IN  /\ call' = c
              /\ ret' = [raised |-> FALSE, stream |-> self.streams.np, data |-> after.data]
              /\ self' = [self EXCEPT !.streams.np = after.stream,
                                      !.history = Append(@, c)]
    /\ UNCHANGED pc

NextProc ==
    \/ Construct
    \/ DrawOne
    \/ AddLaplaceNoiseOnStream

SpecProc == InitProc /\ [][NextProc]_vars

-----------------------------------------------------------------------------
(* Claims about the constraint engine *)

ApplyConstraintsDone == pc = "done" /\ call.op = "apply_constraints"

\* C1: for a column of n non-null values and a constraints map with
\* null_percentage = p, whatever its other keys (unique = true included), the
\* column apply_constraints returns holds exactly floor(n*p/100) null entries.
C1_ExactNullCount ==
    (ApplyConstraintsDone /\ NullCount(call.data) = 0
        /\ Has(call.constraints, "null_percentage"))
    => /\ ~ret.raised
       /\ NullCount(ret.data)
            = NullTarget(Len(call.data), call.constraints.null_percentage)

\* the column as it reaches the uniqueness step (base_generator.py line 48)
ColumnAtUnique == SetNone(call.data, ret.nulled)

-----------------------------------------------------------------------------
(* Claims about the generator families *)

GenerateOps == {"generate_numeric", "generate_text", "generate_date"}
GenerateDone == pc = "done" /\ call.op \in GenerateOps

\* the subtype of the call is in its family's dispatch table
KnownSubtype ==
    CASE call.op = "generate_numeric" -> call.subtype \in numeric_types
      [] call.op = "generate_text"    -> call.subtype \in text_types
      [] call.op = "generate_date"    -> call.subtype \in date_types

InClosedInterval(v, lo, hi) == Milli(lo) <= Milli(v) /\ Milli(v) <= Milli(hi)

\* C7: for the subtypes age, salary and score and bounds min_val <= max_val
\* (multiples of the rounding step or not), every value generate returns
\* without outlier injection lies in [min_val, max_val].
C7_ValuesWithinBounds ==
    (/\ pc = "done"
     /\ call.op = "generate_numeric"
     /\ call.subtype \in {"age", "salary", "score"}
     /\ Has(call.kwargs, "min_val") /\ Has(call.kwargs, "max_val")
     /\ Milli(call.kwargs.min_val) <= Milli(call.kwargs.max_val)
     /\ ~Has(call.kwargs, "outlier_percentage"))
    => /\ ret.error = "none"
       /\ \A i \in DOMAIN ret.data :
            IsNumber(ret.data[i])
            => InClosedInterval(ret.data[i], call.kwargs.min_val, call.kwargs.max_val)

\* 'Generated_' followed by a number of 4 digits
IsGeneratedText(v) ==
    /\ IsStr(v)
    /\ Len(v.str) = Len(GeneratedPrefix) + 4
    /\ SubSeq(v.str, 1, Len(GeneratedPrefix)) = GeneratedPrefix
    /\ \A i \in Len(GeneratedPrefix) + 1 .. Len(v.str) : IsDigit(v.str[i])
    /\ v.str[Len(GeneratedPrefix) + 1] # "0"

\* v is a fallback value of the family of the call
IsFallbackValue(v) ==
    CASE call.op = "generate_numeric" -> IsInt(v) /\ v.int >= 1 /\ v.int <= 100
      [] call.op = "generate_text"    -> IsGeneratedText(v)
      [] call.op = "generate_date"    -> "now" \in DOMAIN v

-----------------------------------------------------------------------------
(* Claims about generation runs *)

RunDone == pc = "done" /\ call.op = "generate_data"

\* the subtype a family is asked for on behalf of the field is not in its table
AsksUnknownSubtype(field) ==
    LET field_subtype == Get(field, "subtype", "custom")
    IN  CASE field.type = "text" -> field_subtype \notin text_types
          [] field.type \in {"integer", "float"} -> field_subtype \notin numeric_types
          [] field.type = "date" -> field_subtype \notin date_types
          [] OTHER -> FALSE

\* the run has a schema and a first row, and a field whose subtype no table has
RunAsksUnknownSubtype ==
    /\ call.current_schema # NoSchema
    /\ call.num_rows >= 1
    /\ \E j \in DOMAIN call.current_schema.fields :
          AsksUnknownSubtype(call.current_schema.fields[j])

\* C8: generate of the text, numeric or date family, called with a subtype that
\* is not in the family's dispatch table, raises before it has produced any
\* value; a generation run that asks for such a subtype ends with the error
\* status, holds no record (the error became no field value) and does not
\* report success.
C8_UnknownSubtypeFailsFast ==
    /\ (GenerateDone /\ ~KnownSubtype)
          => (ret.error = "ValueError" /\ ret.produced = 0 /\ ret.data = <<>>)
    /\ (RunDone /\ RunAsksUnknownSubtype)
          => (ret.status = "error" /\ ret.data = <<>> /\ ret.records = 0)

\* a run of two rows whose second field asks the date family for an unknown
\* subtype, after the first field of the first row was generated
C8_Witness ==
    /\ RunDone
    /\ call.current_schema # NoSchema
    /\ call.num_rows = 2
    /\ Len(call.current_schema.fields) = 2
    /\ ~AsksUnknownSubtype(call.current_schema.fields[1])
    /\ AsksUnknownSubtype(call.current_schema.fields[2])
    /\ ret.status = "error"

-----------------------------------------------------------------------------
(* Claims about reproducibility *)

TwiceDone == pc = "done" /\ call.op = "twice"

DateFallbackUsed ==
    call.of.op = "generate_date" /\ \E r \in 1..2 : ret.runs[r].failed # {}
\* list(set(data)) was applied to a column that holds more than numbers
HashOrdered ==
    /\ call.of.op \in GenerateOps
    /\ Get(call.of.kwargs, "unique", FALSE)
    /\ \E r \in 1..2 : \E i \in DOMAIN ret.runs[r].data : ~IsNumber(ret.runs[r].data[i])

-----------------------------------------------------------------------------
(* Claims about the privacy routines *)

AnonymizeDone(level) ==
    pc = "done" /\ call.op = "anonymize_data" /\ call.level = level

\* local@domain: the text before the first "@" and everything after it
LocalPart(s) == SubSeq(s, 1, FirstIndex(s, "@") - 1)
DomainPart(s) == SubSeq(s, FirstIndex(s, "@") + 1, Len(s))
IsEmail(v) == IsStr(v) /\ "@" \in Range(v.str) /\ Len(LocalPart(v.str)) >= 1

\* C2: at the medium level every non-null email local@domain, whatever the
\* length (>= 1) of its local part, comes out as the first character of local,
\* one star for each further character of local, "@", and the whole domain.
C2_EmailMaskKeepsFirstAndDomain ==
    (AnonymizeDone("medium") /\ call.field_type = "email")
        => \A i \in DOMAIN call.data :
              IsEmail(call.data[i])
                  => LET local == LocalPart(call.data[i].str)
                         domain == DomainPart(call.data[i].str)
                     IN  ret.data[i] = StrV(<<local[1]>> \o Stars(Len(local) - 1)
                                            \o <<"@">> \o domain)

\* the values a column holds, in first-occurrence order of their str()
FirstSeen(data, i) ==
    ~IsNone(data[i]) /\ \A j \in 1..(i - 1) : IsNone(data[j]) \/ Str(data[j]) # Str(data[i])
Ordinal(data, i) ==
    Cardinality({ j \in DOMAIN data :
                    /\ FirstSeen(data, j)
                    /\ \E m \in j..i : FirstSeen(data, m) /\ Str(data[m]) = Str(data[i]) })
NumberedAlias(field_type, k) ==
    IF field_type = "email" THEN StrV(UserPrefix \o Digits(k) \o ExampleDomain)
    ELSE IF field_type = "name" THEN StrV(PersonPrefix \o Digits(k))
    ELSE IF field_type = "phone" THEN StrV(PhonePrefix \o Digits(k))
    ELSE StrV(Digits(k) \o AnonymizedStreet)

\* C3: at the high level, for each of the types email, name, phone and address,
\* equal values of a column get equal aliases, distinct values get distinct
\* aliases, and the k-th distinct value in first-occurrence order gets the
\* alias numbered k.
C3_PseudonymsBijectiveAndNumbered ==
    (AnonymizeDone("high") /\ call.field_type \in PiiTypes)
        => /\ \A i, j \in DOMAIN call.data :
                (~IsNone(call.data[i]) /\ ~IsNone(call.data[j]))
                    => ((Str(call.data[i]) = Str(call.data[j]))
                            <=> (ret.data[i] = ret.data[j]))
           /\ \A i \in DOMAIN call.data :
                ~IsNone(call.data[i])
                    => ret.data[i] = NumberedAlias(call.field_type, Ordinal(call.data, i))

ColumnOps == {"anonymize_data", "add_laplace_noise", "add_gaussian_noise"}

\* C4: whatever the anonymization level and field type, and whatever the
\* epsilon of add_laplace_noise and add_gaussian_noise, the returned column is
\* as long as the input column and is null wherever the input is null.
C4_LengthAndNullsKept ==
    (pc = "done" /\ call.op \in ColumnOps)
        => /\ ~ret.raised
           /\ Len(ret.data) = Len(call.data)
           /\ \A i \in DOMAIN call.data : IsNone(call.data[i]) => IsNone(ret.data[i])

\* a noised column with a null between two numbers, every number changed
C4_Witness ==
    /\ pc = "done"
    /\ call.op = "add_laplace_noise"
    /\ call.epsilon > 0
    /\ Len(call.data) = 3
    /\ IsNone(call.data[2]) /\ IsNone(ret.data[2])
    /\ \A i \in {1, 3} : ~IsNone(call.data[i]) /\ ret.data[i] # call.data[i]

\* the quasi-identifier values of a record; a name no record holds reads as ''
Projection(record, quasi_identifiers) ==
    [i \in DOMAIN quasi_identifiers |->
        IF quasi_identifiers[i] \in DOMAIN record THEN record[quasi_identifiers[i]]
        ELSE EmptyString]
\* the records sharing the quasi-identifier values of record i
GroupOf(data, quasi_identifiers, i) ==
    { j \in DOMAIN data :
        Projection(data[j], quasi_identifiers) = Projection(data[i], quasi_identifiers) }
TrueGroups(data, quasi_identifiers) ==
    { GroupOf(data, quasi_identifiers, i) : i \in DOMAIN data }

\* C5: for every list of records, list of quasi-identifiers and k, the reported
\* min_group_size is the size of the smallest group of records sharing their
\* quasi-identifier values, violations is the number of groups smaller than k,
\* and k_anonymity_satisfied says that there is no such group.
C5_KAnonymityReport ==
    (pc = "done" /\ call.op = "check_k_anonymity")
        => LET groups == TrueGroups(call.data, call.quasi_identifiers)
               small == { g \in groups : Cardinality(g) < call.k }
           IN  /\ ret.result.violations = Cardinality(small)
               /\ ret.result.k_anonymity_satisfied = (small = {})
               /\ groups # {} =>
                     /\ ret.result.min_group_size \in { IntV(Cardinality(g)) : g \in groups }
                     /\ \A g \in groups : ret.result.min_group_size.int <= Cardinality(g)

-----------------------------------------------------------------------------
(* Claims about the privacy step of generation runs *)

\* the forms _mask_pii gives the values the text family generates for a subtype
MaskedForms(subtype) ==
    { mask_pii(<<StrV(w)>>, subtype)[1] : w \in FakerStrings }

\* the aliases _pseudonymize can give in a column of n values
PseudonymForms(subtype, n) ==
    { StrV(alias) : alias \in UNION { NewPseudonyms(subtype, k) : k \in 1..n } }

\* the field's subtype is one of the four the anonymizer masks and pseudonymizes
HasPiiSubtype(field) == Get(field, "subtype", "custom") \in PiiTypes

\* C11: in a generation run with privacy level medium (respectively high),
\* every non-null value of a schema field whose subtype is email, name, phone
\* or address appears masked (respectively pseudonymized) in the produced
\* dataset.
C11_PiiSubtypesAnonymized ==
    (RunDone /\ ret.status = "success" /\ call.privacy_level \in {"medium", "high"}) =>
        \A j \in DOMAIN call.current_schema.fields :
            LET field == call.current_schema.fields[j]
            IN  HasPiiSubtype(field) =>
                    \A i \in DOMAIN ret.data :
                        LET v == ret.data[i][field.name]
                        IN  NotNone(v) =>
                              IF call.privacy_level = "medium"
                              THEN v \in MaskedForms(field.subtype)
                              ELSE v \in PseudonymForms(field.subtype, Len(ret.data))

-----------------------------------------------------------------------------
(* Claims about the privacy levels of anonymize_data *)

\* C12: anonymize_data with level low returns a column equal to its input,
\* element for element, for every field type and every input column.
C12_LowIsIdentity ==
    AnonymizeDone("low") =>
        /\ ~ret.raised
        /\ Len(ret.data) = Len(call.data)
        /\ \A i \in DOMAIN call.data : ret.data[i] = call.data[i]

\* a low call on an email column holding an address the medium level would mask
C12_Witness ==
    /\ AnonymizeDone("low")
    /\ call.field_type = "email"
    /\ \E i \in DOMAIN call.data :
          /\ IsEmail(call.data[i])
          /\ mask_email(call.data[i].str) # call.data[i].str
          /\ ret.data[i] = call.data[i]

-----------------------------------------------------------------------------
(* Claims about the privacy budget of an engine *)

\* the latest call was a histogram or an aggregation, on data with a value that
\* is not None, and it returned
ReportsBudget ==
    /\ call.op \in {"apply_private_histogram", "apply_private_aggregation"}
    /\ CleanData(call.data) # <<>>
    /\ ~ret.raised

\* C13: after any sequence of DifferentialPrivacy operations on one engine
\* instance, the engine's epsilon equals the value supplied at construction
\* (no call decrements or changes it), and every histogram or aggregation
\* result computed on data with at least one non-null value reports
\* privacy_budget_used equal to that same value.
C13_EpsilonNeverSpent ==
    /\ self.epsilon = call.constructed
    /\ ReportsBudget => ret.result.privacy_budget_used = FltV(call.constructed)

\* a second call on the engine, a histogram of two bins over numbers, after a
\* first call, on an engine whose epsilon is neither 0 nor 1
C13_Witness ==
    /\ call.seq = 2
    /\ call.op = "apply_private_histogram"
    /\ call.constructed = 500
    /\ call.bins = 2
    /\ \A i \in DOMAIN call.data : IsNone(call.data[i]) \/ IsNumber(call.data[i])
    /\ ReportsBudget
    /\ Len(ret.result.counts) = 2
    /\ ret.result.privacy_budget_used = FltV(500)

-----------------------------------------------------------------------------
(* Claims about the schema validator *)

ValidateDone == pc = "done" /\ call.op = "validate_schema"

\* C14: for every schema value passed in (including fields that are not
\* mappings, a missing or non-list fields entry, and constraints whose
\* min_val/max_val or dates have unexpected types), validate_schema returns a
\* result {valid, errors, warnings} without raising and leaves its input
\* unchanged.
C14_ValidateNeverRaises ==
    ValidateDone =>
        /\ ~ret.raised
        /\ DOMAIN ret.result = {"valid", "errors", "warnings"}
        /\ ret.schema = call.schema

\* a name that is an identifier: a letter or underscore, then letters, digits
\* and underscores, and nothing else
IsIdentifier(v) ==
    /\ IsStr(v)
    /\ Len(v.str) >= 1
    /\ v.str[1] \in IdentifierStart
    /\ \A i \in 2..Len(v.str) : v.str[i] \in IdentifierPart

\* constraints that do not contradict themselves or the field's type
ConsistentConstraints(c, type) ==
    /\ IsDict(c)
    /\ (type \in {"integer", "float"} /\ Has(c.dict, "min_val") /\ Has(c.dict, "max_val"))
          => (/\ IsNumber(c.dict.min_val) /\ IsNumber(c.dict.max_val)
              /\ Milli(c.dict.min_val) <= Milli(c.dict.max_val))
    /\ type = "date" =>
          /\ Has(c.dict, "start_date") => Parses(c.dict.start_date)
          /\ Has(c.dict, "end_date") => Parses(c.dict.end_date)
          /\ (Has(c.dict, "start_date") /\ Has(c.dict, "end_date"))
                => c.dict.start_date.iso <= c.dict.end_date.iso
    /\ (type = "categorical" /\ Has(c.dict, "categories"))
          => (IsList(c.dict.categories) /\ Len(c.dict.categories.list) > 0)
    /\ Has(c.dict, "null_percentage") =>
          /\ IsInt(c.dict.null_percentage)
          /\ c.dict.null_percentage.int \in 0..100

\* a schema with a name and a list of fields, each a mapping with an identifier
\* for its name that no other field has, a known type and consistent constraints
WellFormedSchema(schema) ==
    /\ Has(schema.dict, "name")
    /\ Has(schema.dict, "fields")
    /\ IsList(schema.dict.fields)
    /\ LET fields == schema.dict.fields.list
       IN  /\ \A i \in DOMAIN fields :
                 /\ IsDict(fields[i])
                 /\ Has(fields[i].dict, "name")
                 /\ IsIdentifier(fields[i].dict.name)
                 /\ Has(fields[i].dict, "type")
                 /\ fields[i].dict.type \in valid_types
                 /\ Has(fields[i].dict, "constraints")
                       => ConsistentConstraints(fields[i].dict.constraints, fields[i].dict.type)
           /\ \A i, j \in DOMAIN fields : i # j => fields[i].dict.name # fields[j].dict.name

\* C15: validate_schema reports valid = true exactly when the schema has a name
\* and a list of fields in which every field has a name that is a valid
\* identifier and unique within the schema, a type among text, integer, float,
\* date, boolean, categorical, and consistent constraints; in particular a
\* schema with an empty field name, an unknown type, or two fields with the
\* same name is reported invalid.
C15_ValidIffWellFormed ==
    (ValidateDone /\ ~ret.raised) => (ret.result.valid <=> WellFormedSchema(call.schema))

-----------------------------------------------------------------------------
(* Claims about PII detection *)

DetectDone == pc = "done" /\ call.op = "detect_pii"

\* some value of the column, written out as a string, matches the pattern
SomeValueMatches(pii_type) ==
    \E i \in DOMAIN call.data :
        NotNone(call.data[i]) /\ re_search(pii_patterns[pii_type], Str(call.data[i]))

\* C16: detect_pii reports risk_level high exactly when at least one value
\* matches the SSN or credit-card pattern, medium exactly when some pattern
\* matches but neither of those two, and low exactly when no value matches any
\* pattern; pii_detected is true exactly when risk_level is not low.
C16_RiskLevelFollowsMatches ==
    DetectDone =>
        LET high == SomeValueMatches("ssn") \/ SomeValueMatches("credit_card")
            some == \E pii_type \in DOMAIN pii_patterns : SomeValueMatches(pii_type)
        IN  /\ ret.result.risk_level = "high" <=> high
            /\ ret.result.risk_level = "medium" <=> (some /\ ~high)
            /\ ret.result.risk_level = "low" <=> ~some
            /\ ret.result.pii_detected <=> ret.result.risk_level # "low"

\* a column with a credit-card number and an e-mail address, and no SSN
C16_Witness ==
    /\ DetectDone
    /\ SomeValueMatches("credit_card")
    /\ SomeValueMatches("email")
    /\ ~SomeValueMatches("ssn")
    /\ ret.result.risk_level = "high"
    /\ Len(ret.result.pii_types) = 2

-----------------------------------------------------------------------------
(* Claims about the null entries of generation runs *)

\* a successful run at privacy level low without missing values and duplicates
PlainRunDone ==
    /\ RunDone
    /\ ret.status = "success"
    /\ call.privacy_level = "low"
    /\ call.missing_percentage = 0
    /\ call.duplicate_percentage = 0

\* C17: in a generation run of n rows with missing-values and duplicates at 0
\* and privacy level low, each schema field with null_percentage = p has exactly
\* floor(n*p/100) null entries in its column of the produced dataset.
C17_NullShareOfColumn ==
    PlainRunDone =>
        \A j \in DOMAIN call.current_schema.fields :
            LET field == call.current_schema.fields[j]
                constraints == Get(field, "constraints", EmptyMap)
            IN  Has(constraints, "null_percentage") =>
                    Cardinality({ i \in DOMAIN ret.data : IsNone(ret.data[i][field.name]) })
                        = (call.num_rows * constraints.null_percentage) \div 100

-----------------------------------------------------------------------------
(* Claims about the outlier parameter of generation runs *)

SweepDone == pc = "done" /\ call.op = "sweep_outlier_percentage"

-----------------------------------------------------------------------------
(* Claims about the stored dataset of the app *)

\* the rows self.generated_data holds (none before any successful run)
StoredRows == IF self.generated_data = None THEN <<>> ELSE self.generated_data.rows

\* C19: after every generate_data call completes, the stored dataset
\* (generated_data) is the dataset produced by that call: data of an earlier
\* run is never retained, and so never exportable, once a later run has
\* completed, including a later run that ended in an error or was refused for
\* lack of a schema.
C19_StoredIsLatestRun ==
    call.op = "generate_data" => StoredRows = ret.data

-----------------------------------------------------------------------------
(* Claims about duplicated entries *)

DuplicatesDone == pc = "done" /\ call.op = "create_duplicates"

\* C20: create_duplicates(column, d) with d > 0 on a column of n values returns
\* a column of length n + floor(n*d/100) whose first n entries are the column
\* in its order and whose appended entries are each equal to some entry of the
\* column; with d <= 0 or an empty column it returns the column it was given,
\* unchanged.  It never raises.
C20_DuplicatesAppended ==
    DuplicatesDone =>
        LET n == Len(call.data)
            d == call.duplicate_percentage
        IN  /\ ~ret.raised
            /\ IF d > 0 /\ n > 0
               THEN /\ Len(ret.data) = n + (n * d) \div 100
                    /\ SubSeq(ret.data, 1, n) = call.data
                    /\ \A i \in (n + 1)..Len(ret.data) : ret.data[i] \in Range(call.data)
               ELSE /\ ret.data = call.data
                    /\ ret.same_list

\* a column of two distinct values, doubled, whose two appended entries are one
\* and the same entry of the column
C20_Witness ==
    /\ DuplicatesDone
    /\ call.duplicate_percentage = 100
    /\ Len(call.data) = 2
    /\ NoDuplicates(call.data)
    /\ Len(ret.data) = 4
    /\ ret.data[3] = ret.data[4]

-----------------------------------------------------------------------------
(* Claims about injected outliers *)

OutliersDone == pc = "done" /\ call.op = "introduce_outliers"

\* the positions at which the returned column differs from the one passed
ChangedPositions == {i \in DOMAIN call.data : ret.data[i] # call.data[i]}

\* the returned column has the length of the one passed, at most `count`
\* positions differ, each changed entry is a number times 0.1, 10 or 100, and
\* nulls and non-numbers are as they were
OutliersWithin(count) ==
    /\ Len(ret.data) = Len(call.data)
    /\ Cardinality(ChangedPositions) <= count
    /\ \A i \in ChangedPositions :
          /\ IsNumber(call.data[i])
          /\ \E factor \in OutlierFactors : ret.data[i] = TimesFactor(call.data[i], factor)

\* C21 as stated: introduce_outliers(column, o) returns a column of the same
\* length in which at most floor(n*o/100) distinct positions differ from the
\* input; each changed entry is the original number times 0.1, 10 or 100, and
\* null or non-numeric entries are unchanged even when selected.
C21_OutliersReturned ==
    OutliersDone =>
        /\ ~ret.raised
        /\ OutliersWithin((Len(call.data) * Max2(call.outlier_percentage, 0)) \div 100)

\* C21, amended: the above holds whenever floor(n*o/100) <= n; when o > 0 and
\* floor(n*o/100) > n on a non-empty column, the call raises (random.sample is
\* asked for more positions than the column has) and returns nothing.
C21_OutliersReturnedOrSampleRaises ==
    OutliersDone =>
        LET n == Len(call.data)
            o == call.outlier_percentage
            count == (n * Max2(o, 0)) \div 100
        IN  IF o > 0 /\ n > 0 /\ count > n
            THEN ret.raised
            ELSE ~ret.raised /\ OutliersWithin(count)

\* a call whose selected positions include a null or a string, left as it was,
\* and a number, changed
C21_Witness ==
    /\ OutliersDone
    /\ ~ret.raised
    /\ \E i \in ret.outliers : ~IsNumber(call.data[i]) /\ ret.data[i] = call.data[i]
    /\ \E j \in ret.outliers : j \in ChangedPositions

-----------------------------------------------------------------------------
(* Claims about the masks of names and addresses *)

\* a masked token: the length and the first character of the token it stands
\* for, every other character a star
MaskOfToken(masked, token) ==
    /\ Len(masked) = Len(token)
    /\ masked[1] = token[1]
    /\ \A k \in 2..Len(masked) : masked[k] = "*"

\* C22: at the medium level a name or address value comes out with as many
\* whitespace-delimited tokens as it went in with, each output token having
\* the length and the first character of the input token at its place and
\* stars for the rest; the first token of an address is kept whole.
C22_TokensMaskedInPlace ==
    (AnonymizeDone("medium") /\ call.field_type \in {"name", "address"})
        => \A i \in DOMAIN call.data :
              IsStr(call.data[i])
                  => LET tokens == Words(call.data[i].str)
                         masked == Words(ret.data[i].str)
                     IN  /\ Len(masked) = Len(tokens)
                         /\ \A w \in DOMAIN tokens :
                               IF call.field_type = "address" /\ w = 1
                               THEN masked[w] = tokens[w]
                               ELSE MaskOfToken(masked[w], tokens[w])

-----------------------------------------------------------------------------
(* Claims about date fuzzing *)

\* the seconds a datetime counts, and its time of day
SecondsOf(v) == IF "dt" \in DOMAIN v THEN v.dt ELSE v.now
TimeOfDay(v) == SecondsOf(v) % DaySeconds

\* the widest shift of a level, in days
DaysRange(level) == IF level = "medium" THEN 30 ELSE 365

FuzzDone ==
    /\ pc = "done"
    /\ call.op = "anonymize_data"
    /\ call.level \in {"medium", "high"}
    /\ call.field_type \in {"date", "datetime"}

\* C23: date fuzzing never raises; every non-null timestamp comes back shifted
\* by a whole number of days d, |d| <= 30 at the medium level and |d| <= 365 at
\* the high level, with its time of day; every string that does not parse as
\* YYYY-MM-DD comes back as it is.
C23_FuzzShiftsWholeDays ==
    FuzzDone =>
        /\ ~ret.raised
        /\ Len(ret.data) = Len(call.data)
        /\ \A i \in DOMAIN call.data :
              /\ IsDateTime(call.data[i])
                    => /\ \E d \in (0 - DaysRange(call.level))..DaysRange(call.level) :
                             ret.data[i] = ShiftDays(call.data[i], d)
                       /\ TimeOfDay(ret.data[i]) = TimeOfDay(call.data[i])
              /\ IsStr(call.data[i]) => ret.data[i] = call.data[i]

\* a timestamp shifted by the widest shift of the high level
C23_Witness ==
    /\ FuzzDone
    /\ call.level = "high"
    /\ Len(call.data) = 1
    /\ IsDateTime(call.data[1])
    /\ ret.data[1] = ShiftDays(call.data[1], 0 - 365)

\* a string that is no date, fuzzed and returned as it is
C23_WitnessString ==
    /\ FuzzDone
    /\ \E i \in DOMAIN call.data : IsStr(call.data[i]) /\ ret.data[i] = call.data[i]

-----------------------------------------------------------------------------
(* Claims about the draws of the noise routines *)

LaplaceOnStreamDone == call.op = "add_laplace_noise" /\ "history" \in DOMAIN self

\* C24: add_laplace_noise with epsilon > 0 takes exactly one noise draw for
\* each non-null value, in the order of the column, and none for a null entry;
\* an integer comes back an integer, any other number rounded to 2 decimals.
C24_OneDrawPerValueInOrder ==
    (LaplaceOnStreamDone /\ self.epsilon > 0)
        => LET data == call.data
               scale == (call.sensitivity * 1000) \div self.epsilon
               values == {i \in DOMAIN data : NotNone(data[i])}
           IN  /\ self.streams.np = [seed |-> ret.stream.seed,
                                     pos |-> ret.stream.pos + Cardinality(values)]
               /\ Len(ret.data) = Len(data)
               /\ \A i \in DOMAIN data :
                     IF i \in values
                     THEN LET k == Cardinality({j \in values : j < i})
                              u == DrawOf([seed |-> ret.stream.seed,
                                           pos |-> ret.stream.pos + k])
                          IN  /\ ret.data[i] = Noisy(data[i], LaplaceAt(scale, u))
                              /\ IsInt(data[i]) => IsInt(ret.data[i])
                              /\ IsFlt(data[i]) => IsFlt(ret.data[i]) /\ ret.data[i].flt % 10 = 0
                     ELSE IsNone(ret.data[i])

\* a column whose first entry is null and whose two values, an int and a
\* float, took the first two draws of a seeded stream
C24_Witness ==
    /\ LaplaceOnStreamDone
    /\ self.epsilon > 0
    /\ call.data = <<None, IntV(17), FltV(1234)>>
    /\ ret.stream = [seed |-> IntV(1), pos |-> 0]
    /\ self.streams.np.pos = 2
    /\ IsInt(ret.data[2]) /\ ret.data[2] # call.data[2]
    /\ IsFlt(ret.data[3]) /\ ret.data[3] # call.data[3]

-----------------------------------------------------------------------------
(* Claims about the seeding of the process's random sources *)

\* the place in the history of the last construction with a seed by one of the
\* classes, 0 when there is none
IsSeeding(event, classes) ==
    event.op = "__init__" /\ NotNone(event.seed) /\ event.class \in classes
LastSeeding(history, classes) ==
    LET at == {j \in DOMAIN history : IsSeeding(history[j], classes)}
    IN  IF at = {} THEN 0 ELSE CHOOSE j \in at : \A k \in at : k <= j

\* the draws an event of the history took from a source
DrawsIn(event, source) ==
    IF event.op = "draw" /\ event.source = source THEN 1
    ELSE IF event.op = "add_laplace_noise" /\ source = "np"
    THEN Cardinality({i \in DOMAIN event.data : NotNone(event.data[i])})
    ELSE 0
RECURSIVE DrawsAfter(_, _, _)
DrawsAfter(history, j, source) ==
    IF Len(history) <= j THEN 0
    ELSE DrawsIn(history[Len(history)], source)
         + DrawsAfter(SubSeq(history, 1, Len(history) - 1), j, source)

\* the stream of a source if the last seeding by one of the classes started it
StreamSince(history, source, classes) ==
    LET j == LastSeeding(history, classes)
    IN  [seed |-> IF j = 0 THEN Entropy ELSE history[j].seed,
         pos |-> DrawsAfter(history, j, source)]

DrawDone == call.op = "draw"
\* the calls made before the draw
Before == SubSeq(self.history, 1, Len(self.history) - 1)

\* C26 as stated: a construction of any generator, DataAnonymizer or
\* DifferentialPrivacy with a seed restarts every random source of the process,
\* so that each later draw of any instance, from any source, is the next of the
\* sequence the last seed given started; a construction with seed None leaves
\* the streams as they are.
C26_AnySeededConstructionRestartsEverySource ==
    DrawDone => ret.stream = StreamSince(Before, call.source, Classes)

\* C26, amended: a generator restarts the three sources, DifferentialPrivacy
\* the random module and numpy.random, DataAnonymizer the random module alone;
\* each later draw of any instance from a source is the next of the sequence
\* started by the last seeded construction of a class that restarts that
\* source, and a source no such construction has restarted runs on.
C26_SeededConstructionRestartsItsSources ==
    DrawDone =>
        ret.stream =
            StreamSince(Before, call.source,
                        CASE call.source = "random" -> Classes
                          [] call.source = "np" -> GeneratorClasses \cup {"DifferentialPrivacy"}
                          [] call.source = "faker" -> GeneratorClasses)

\* an instance built with one seed draws, after an instance of another class
\* was built with another seed, the first value of the second seed's sequence
C26_Witness ==
    /\ DrawDone
    /\ Len(self.history) = 3
    /\ self.history[1].op = "__init__" /\ self.history[1].seed = IntV(0)
    /\ self.history[2].op = "__init__" /\ self.history[2].seed = IntV(1)
    /\ self.history[2].class # self.history[1].class
    /\ call.class = self.history[1].class
    /\ ret.stream = [seed |-> IntV(1), pos |-> 0]

-----------------------------------------------------------------------------
(* Claims about the weekday loop of signup dates *)

InWeekdayBranch == pc \in {"loop", "done"} /\ self # NoObject /\ self.weekday_branch

\* in the weekday branch the loop has taken at most two turns, base_date is
\* not before the sampled date, and what is returned is a Monday-to-Friday
\* date, the sampled date itself when that was one
WeekdayLoopWithinTwoTurns ==
    InWeekdayBranch =>
        /\ self.turns <= 2
        /\ self.base_date = ShiftDays(self.sampled, self.turns)
        /\ pc = "done" =>
              /\ ret.value = self.base_date
              /\ Weekday(ret.value.dt) < 5
              /\ Weekday(self.sampled.dt) < 5 => ret.value = self.sampled

-----------------------------------------------------------------------------
(* Claims about the template catalog of the app *)

\* C27: no sequence of load_template, add_field_to_schema and generate_data
\* calls changes the template catalog of the app: every entry keeps the fields
\* it was built with, so that a later load_template of it gives the original
\* template.
C27_CatalogNeverChanges ==
    self.templates = Templates

-----------------------------------------------------------------------------
(* Claims about the records of a generation run *)

RunSucceeded == RunDone /\ ret.status = "success"

FieldNames(schema) == {schema.fields[j].name : j \in DOMAIN schema.fields}

\* C28: a successful run with num_rows = n and duplicate_percentage = d has
\* exactly n + floor(n*d/100) records, each with one entry for each distinct
\* field name of the schema, whatever unique or null_percentage constraints the
\* fields carry.
C28_RecordCountAndKeys ==
    RunSucceeded =>
        /\ Len(ret.data) = call.num_rows
                           + (call.num_rows * call.duplicate_percentage) \div 100
        /\ ret.records = Len(ret.data)
        /\ \A i \in DOMAIN ret.data : DOMAIN ret.data[i] = FieldNames(call.current_schema)

\* two rows and a duplicate, of a schema whose two fields share a name and
\* whose second field is unique
C28_Witness ==
    /\ RunSucceeded
    /\ call.num_rows = 2
    /\ call.duplicate_percentage = 50
    /\ Len(call.current_schema.fields) = 2
    /\ FieldNames(call.current_schema) = {"c"}
    /\ Has(call.current_schema.fields[2].constraints, "unique")
    /\ Len(ret.data) = 3

-----------------------------------------------------------------------------
(* Claims about the duplicates of a generation run *)

\* C29: after a successful run with duplicate_percentage > 0, at any privacy
\* level (medium and high draw a fresh offset for each position of a numeric
\* or date column), every appended duplicate is field for field equal to one
\* of the first num_rows records of the final dataset.
C29_DuplicatesEqualTheirRecord ==
    (RunSucceeded /\ call.duplicate_percentage > 0)
        => \A i \in (call.num_rows + 1)..Len(ret.data) :
              \E j \in 1..call.num_rows : ret.data[i] = ret.data[j]

\* two rows of a noised integer field and a duplicate of the first: the two
\* rows came out different, the duplicate as the first, with a value that only
\* the noise can give
C29_Witness ==
    /\ RunSucceeded
    /\ call.privacy_level \in {"medium", "high"}
    /\ call.duplicate_percentage = 50
    /\ call.num_rows = 2
    /\ call.current_schema = [fields |-> <<FieldWith("age", "integer", "age", AgeBounds)>>]
    /\ Len(ret.data) = 3
    /\ ret.data[3] = ret.data[1]
    /\ ret.data[1] # ret.data[2]
    /\ ret.data[3].age.int \notin 18..21

-----------------------------------------------------------------------------
(* Claims about the order of the operations of the app *)

\* export_data answers with the no-data error exactly when no record is stored
ExportNeedsStoredRecords ==
    call.op = "export_data" => (ret.status = "no_data" <=> StoredRows = <<>>)

\* the stored records change only by a generate_data call that succeeds, and
\* become the records of that call
StoredBySuccessfulRun ==
    StoredRows' # StoredRows
        => /\ call'.op = "generate_data"
           /\ ret'.status = "success"
           /\ StoredRows' = ret'.data

\* generate_data called while there is no schema returns its error and leaves
\* the app as it is
NoSchemaRunChangesNothing ==
    (call'.op = "generate_data" /\ call'.seq = call.seq + 1 /\ CurrentSchema(self) = NoSchema)
        => /\ ret'.status = "no_schema"
           /\ ret'.data = <<>>
           /\ self' = self

\* C30: in every sequence of operations of the app, export_data returns
\* exported content only if an earlier generate_data call succeeded with at
\* least one record, and before that it returns the no-data error; a
\* generate_data call made while no schema is loaded or built returns an error
\* and changes neither the current schema nor the stored dataset.
C30_ExportOnlyAfterSuccessfulRun ==
    /\ []ExportNeedsStoredRecords
    /\ [][StoredBySuccessfulRun]_vars
    /\ [][NoSchemaRunChangesNothing]_vars

\* an export of the record a run stored
C30_Witness ==
    /\ call.op = "export_data"
    /\ ret.status = "ready"
    /\ Len(ret.exported) = 1
    /\ ret.exported = StoredRows

\* a run refused for lack of a schema
C30_WitnessNoSchema ==
    /\ call.op = "generate_data"
    /\ ret.status = "no_schema"
    /\ self = AppConstruct

====
